---- MODULE Spec2Model ----
(***************************************************************************)
(* par2-integrity: the reconciliation engine (reconciler.py), the parity   *)
(* store wrapper (parity.py), the manifest (manifest.py), the scanner      *)
(* (scanner.py) and the scan / verify driver (main.py).                    *)
(*                                                                         *)
(* A run is a sequence of steps, one per loop iteration of reconcile().    *)
(* The data tree, the parity directory and the configuration change only   *)
(* between runs (the Env* actions).                                       *)
(*                                                                         *)
(* Representation choices:                                                 *)
(*  - a file or directory name is a sequence of one-character strings, so  *)
(*    that fnmatch is computed and not tabulated;                          *)
(*  - a content hash is a pair <<first 16 hex digits, remaining digits>>;  *)
(*    par2_name_for_hash keeps the first component only;                   *)
(*  - a file of the parity store is <<stem, extension>>; the two-character *)
(*    directory level by_hash/H[:2]/ is a function of the stem and is not  *)
(*    represented;                                                         *)
(*  - created_at / updated_at are not represented; verified_at is the      *)
(*    number of the run that last marked the row verified (0 = NULL).      *)
(***************************************************************************)
EXTENDS Integers, Sequences, FiniteSets, TLC

VARIABLES
    disk,        \* data tree: path -> NoFile or [hash, size, mtime_ns]
    cfg,         \* Config: exclude_patterns, max_file_size, verify_percent
    universe,    \* the file contents [hash, size] that can occur on disk
    files,       \* manifest table `files`: a set of rows
    nextId,      \* next AUTOINCREMENT id of table `files`
    store,       \* parity store: set of par2 file names <<stem, ext>>
    pc,          \* position of the driver / reconciler
    verify_only, \* the flag reconcile() was called with
    seen_on_disk,\* reconcile: set of scanned paths
    needs_hash,  \* reconcile: sequence of FileInfo still to resolve
    unchanged,   \* reconcile: sequence of [fi, rec] (phase-1 snapshot rows)
    to_verify,   \* reconcile: sequence/set of [fi, rec] still to verify
    cursor,      \* phase 4: rows of iter_all_files() not yet yielded
    stats,       \* RunStats of the current run
    calls,       \* parity-store calls made by the last step, in order
    log,         \* the log line of the last step: [event, path]
    runCount,    \* number of runs started (run id of the current run)
    runs,        \* manifest table `runs`: a set of [id, finished]
    envSteps,    \* number of environment changes so far
    storeAtStart,\* parity store when the current run started
    written,     \* ids upserted by the current run
    quiet,       \* "clean" / "errors": a scan has just completed (without /
                 \* with errors) and nothing changed since; "no" otherwise
    backToBack,  \* the value of quiet when the current scan started
    cp,          \* the last call of parity.create_parity, with its temp dir:
                 \* [content_hash, result, tmp]
    vp,          \* the last call of parity.verify_parity:
                 \* [content_hash, ran, child, result]; ran tells whether
                 \* par2 verify was run, child is its outcome (0 if not run)
    lock,        \* run.lock: the invocation holding the flock, or 0
    inv,         \* invocations of main(): invocation -> [at, exit, opened]
    snap,        \* what a rollback of the open transaction of reconcile
                 \* restores: [run, phase, files, nextId, recovering];
                 \* recovering tells that the run before was aborted
    txn          \* Manifest.transaction(): [scopes, in_transaction, committed,
                 \* entry, wrote, ended], followed where scopes are opened
                 \* explicitly; wrote holds the kinds of scope written in and
                 \* ended how the last outermost scope ended

vars == <<disk, cfg, universe, files, nextId, store, pc, verify_only,
          seen_on_disk, needs_hash, unchanged, to_verify, cursor, stats,
          calls, log, runCount, runs, envSteps, storeAtStart, written, quiet,
          backToBack, cp, vp, lock, inv, txn, snap>>

\* State of the parity call and of the driver's lock, which a reconcile run
\* does not touch.
held == <<cp, vp, lock, inv, txn, snap>>

-----------------------------------------------------------------------------
(* Bounds *)

MaxEnv == 3
MaxRuns == 3
MaxMtime == 2
\* Nesting depth of transaction scopes, and ids the transaction runs hand out.
MaxDepth == 2
MaxTxnId == 2
\* Invocations of the driver that may overlap.
NumProcs == 3

-----------------------------------------------------------------------------
(* Names, paths, contents *)

NoFile == [absent |-> TRUE]
\* The invocations of main() and the state of one before it is started:
\* at is its position, exit its exit status, opened whether it has opened
\* the manifest.
Procs == 1..NumProcs

NotInvoked == [at |-> "none", exit |-> "none", opened |-> FALSE]

\* The database as it is on disk: the committed rows and id counter.
Snapshot(fs, nid) == [files |-> fs, nextId |-> nid]

\* A fresh connection: no scope open, the empty manifest committed.
NoTxn == [scopes |-> <<>>, in_transaction |-> FALSE,
          committed |-> Snapshot({}, 1), entry |-> Snapshot({}, 1),
          wrote |-> {}, ended |-> "none"]

\* create_parity has not been called.
NoCall == [content_hash |-> <<0, 0>>, result |-> "none", tmp |-> {}]

\* verify_parity has not been called.
NoVerify == [content_hash |-> <<0, 0>>, ran |-> FALSE, child |-> 0,
             result |-> "none"]

None == [none |-> TRUE]

\* No transaction of reconcile has been opened.
NoSnap == [run |-> 0, phase |-> "none", files |-> {}, nextId |-> 0,
          recovering |-> FALSE]

PHOTOS == <<"p">>
ARCHIVE == <<"#">>
NAME_A == <<"a">>
NAME_TMP == <<"b", ".", "t">>

PAT_TMP == <<"*", ".", "t">>
PAT_ARCHIVE == <<"#">>

\* A path is [data_root, rel_path]; rel_path is the sequence of its parts.
Path(root, parts) == [data_root |-> root, rel_path |-> parts]

P_ARCHIVE_A == Path(ARCHIVE, <<NAME_A>>)
P_PHOTOS_A == Path(PHOTOS, <<NAME_A>>)
P_PHOTOS_TMP == Path(PHOTOS, <<NAME_TMP>>)

\* The scanner visits labels and file names in lexicographic order.
ScanOrder == <<P_ARCHIVE_A, P_PHOTOS_A, P_PHOTOS_TMP>>

Paths == {ScanOrder[i] : i \in 1..Len(ScanOrder)}

\* Config.min_file_size (MIN_FILE_SIZE); sizes are counted in units of half
\* the default minimum of 4096 bytes.
MinFileSize == 2

\* Contents: two of the minimum size, one below it, one above it.
H1 == <<1, 1>>
H2 == <<2, 1>>
H3 == <<3, 1>>
H4 == <<4, 1>>
H1b == <<1, 2>>

Content(h, s) == [hash |-> h, size |-> s]

ContentsDistinct == {Content(H1, 2), Content(H2, 2), Content(H3, 1), Content(H4, 3)}

ContentsColliding == {Content(H1, 2), Content(H1b, 2), Content(H3, 1)}

ExcludeChoices == SUBSET {PAT_TMP, PAT_ARCHIVE}
MaxFileSizeChoices == {0, 2}
VerifyPercentChoices == {50, 100}

Configs == [exclude_patterns : ExcludeChoices,
            max_file_size : MaxFileSizeChoices,
            verify_percent : VerifyPercentChoices]

\* The defaults: both patterns excluded, a maximum size, every file verified.
DefaultConfig == [exclude_patterns |-> {PAT_TMP, PAT_ARCHIVE},
                  max_file_size |-> 2, verify_percent |-> 100]

-----------------------------------------------------------------------------
(* scanner.py *)

RECURSIVE fnmatch(_, _)
fnmatch(name, pat) ==
    IF pat = <<>> THEN name = <<>>
    ELSE IF Head(pat) = "*"
         THEN fnmatch(name, Tail(pat))
              \/ (name # <<>> /\ fnmatch(Tail(name), pat))
         ELSE /\ name # <<>>
              /\ (Head(pat) = "?" \/ Head(pat) = Head(name))
              /\ fnmatch(Tail(name), Tail(pat))

should_exclude(name, patterns) == \E p \in patterns : fnmatch(name, p)

FileInfo(p, f) ==
    [data_root |-> p.data_root, rel_path |-> p.rel_path,
     size |-> f.size, mtime_ns |-> f.mtime_ns]

\* A file is emitted unless a directory or the file name below the label is
\* excluded or its size is out of range.  The label itself is not tested.
Eligible(p, d, c) ==
    /\ d[p] # NoFile
    /\ \A i \in 1..Len(p.rel_path) :
           ~should_exclude(p.rel_path[i], c.exclude_patterns)
    /\ d[p].size >= MinFileSize
    /\ ~(c.max_file_size # 0 /\ d[p].size > c.max_file_size)

RECURSIVE ScanFrom(_, _, _)
ScanFrom(i, d, c) ==
    IF i > Len(ScanOrder) THEN <<>>
    ELSE LET p == ScanOrder[i]
         IN  (IF Eligible(p, d, c) THEN <<FileInfo(p, d[p])>> ELSE <<>>)
             \o ScanFrom(i + 1, d, c)

scan_data_roots(d, c) == ScanFrom(1, d, c)

PathOf(x) == Path(x.data_root, x.rel_path)

sha256_file(d, fi) == d[PathOf(fi)].hash

-----------------------------------------------------------------------------
(* config.py *)

par2_name_for_hash(h) == <<h[1], ".par2">>

vol_name_for_hash(h) == <<h[1], ".vol000+01.par2">>

-----------------------------------------------------------------------------
(* parity.py.  A child process ends with an exit code or is timed out. *)

\* TimedOut stands for subprocess.TimeoutExpired; the others are exit codes.
TimedOut == -1

Par2Results == {0, 1, 2, TimedOut}

Call(op, h, res) == [op |-> op, hash |-> h, result |-> res]

\* create_parity that does not look at the encoder's exit code.
create_parity_unchecked(st, h, child) ==
    IF par2_name_for_hash(h) \in st \/ child # 0
    THEN [ok |-> TRUE, store |-> st, calls |-> <<Call("create", h, "exists")>>]
    ELSE [ok |-> TRUE,
          store |-> st \cup {par2_name_for_hash(h), vol_name_for_hash(h)},
          calls |-> <<Call("create", h, "created")>>]

\* create_parity: [ok, store, calls]
create_parity(st, h, child) ==
    IF par2_name_for_hash(h) \in st
    THEN [ok |-> TRUE, store |-> st, calls |-> <<Call("create", h, "exists")>>]
    ELSE IF child = 0
         THEN [ok |-> TRUE,
               store |-> st \cup {par2_name_for_hash(h), vol_name_for_hash(h)},
               calls |-> <<Call("create", h, "created")>>]
         ELSE [ok |-> FALSE, store |-> st,
               calls |-> <<Call("create", h, "failed")>>]

\* verify_parity that takes every exit code but 0 for damage.
verify_parity_nonzero_is_damaged(st, h, child) ==
    IF par2_name_for_hash(h) \notin st THEN "missing_parity"
    ELSE IF child = 0 THEN "ok"
    ELSE "damaged"

verify_parity(st, h, child) ==
    IF par2_name_for_hash(h) \notin st THEN "missing_parity"
    ELSE IF child = 0 THEN "ok"
    ELSE IF child = 1 THEN "damaged"
    ELSE "error"

\* delete_parity that unlinks the base file and leaves the volume files.
delete_parity_base_only(st, h) == st \ {par2_name_for_hash(h)}

\* delete_parity removes the base file and every file named stem + "." ...
delete_parity(st, h) == {f \in st : f[1] # par2_name_for_hash(h)[1]}

-----------------------------------------------------------------------------
(* manifest.py *)

Row(id, root, rel, size, mtime, h, pname, status, ver) ==
    [id |-> id, data_root |-> root, rel_path |-> rel, file_size |-> size,
     mtime_ns |-> mtime, content_hash |-> h, par2_name |-> pname,
     status |-> status, verified_at |-> ver]

get_file(fs, root, rel) ==
    IF \E r \in fs : r.data_root = root /\ r.rel_path = rel
    THEN CHOOSE r \in fs : r.data_root = root /\ r.rel_path = rel
    ELSE None

get_files_by_hash(fs, h) == {r \in fs : r.content_hash = h}

has_par2_name(fs, n) == \E r \in fs : r.par2_name = n

\* upsert_file that replaces a row in conflict by a new row with a new id.
upsert_file_replace(fs, nid, root, rel, size, mtime, h, pname) ==
    LET old == get_file(fs, root, rel)
    IN  [files |-> (fs \ {old}) \cup {Row(nid, root, rel, size, mtime, h, pname, "ok", 0)},
         nextId |-> nid + 1]

\* upsert_file: [files, nextId]
upsert_file(fs, nid, root, rel, size, mtime, h, pname) ==
    LET old == get_file(fs, root, rel)
    IN  IF old = None
        THEN [files |-> fs \cup {Row(nid, root, rel, size, mtime, h, pname, "ok", 0)},
              nextId |-> nid + 1]
        ELSE [files |-> (fs \ {old}) \cup
                        {[old EXCEPT !.file_size = size, !.mtime_ns = mtime,
                                     !.content_hash = h, !.par2_name = pname,
                                     !.status = "ok"]},
              nextId |-> nid]

UpdateRow(fs, id, f(_)) == {IF r.id = id THEN f(r) ELSE r : r \in fs}

update_path(fs, id, rel, root) ==
    LET g(r) == [r EXCEPT !.rel_path = rel, !.data_root = root]
    IN  UpdateRow(fs, id, g)

\* update_mtime that also sets the status back to ok.
update_mtime_and_status(fs, id, mtime) ==
    LET g(r) == [r EXCEPT !.mtime_ns = mtime, !.status = "ok"]
    IN  UpdateRow(fs, id, g)

update_mtime(fs, id, mtime) ==
    LET g(r) == [r EXCEPT !.mtime_ns = mtime]
    IN  UpdateRow(fs, id, g)

update_status(fs, id, status) ==
    LET g(r) == [r EXCEPT !.status = status]
    IN  UpdateRow(fs, id, g)

\* mark_verified that also sets the status back to ok.
mark_verified_and_ok(fs, id, now) ==
    LET g(r) == [r EXCEPT !.verified_at = now, !.status = "ok"]
    IN  UpdateRow(fs, id, g)

mark_verified(fs, id, now) ==
    LET g(r) == [r EXCEPT !.verified_at = now]
    IN  UpdateRow(fs, id, g)

delete_file(fs, id) == {r \in fs : r.id # id}

\* get_files_by_status that selects the damaged rows whatever it is asked.
get_files_by_status_damaged(fs, statuses) == {r \in fs : r.status = "damaged"}

get_files_by_status(fs, statuses) == {r \in fs : r.status \in statuses}

\* start_run inserts an open row with the next AUTOINCREMENT id.
start_run(rs) == rs \cup {[id |-> Cardinality(rs) + 1, finished |-> FALSE]}

\* finish_run sets finished_at (and the counters) of the row.
finish_run(rs, id) ==
    {IF r.id = id THEN [r EXCEPT !.finished = TRUE] ELSE r : r \in rs}

-----------------------------------------------------------------------------
(* reconciler.py *)

RunStats ==
    [files_scanned |-> 0, files_created |-> 0, files_verified |-> 0,
     files_damaged |-> 0, files_repaired |-> 0, files_moved |-> 0,
     files_deleted |-> 0, files_truncated |-> 0, parity_recreated |-> 0,
     orphan_parity_cleaned |-> 0, errors |-> <<>>]

\* The part of the state a reconcile step works on.
Ctx == [files |-> files, nextId |-> nextId, store |-> store, stats |-> stats,
        calls |-> <<>>, written |-> written, log |-> None]

AddError(c, msg) ==
    [c EXCEPT !.stats.errors = Append(@, msg)]

LogLine(c, event, p) == [c EXCEPT !.log = [event |-> event, path |-> p]]

\* create_parity applied to the context: <<ok, context>>
DoCreate(c, h, child) ==
    LET r == create_parity(c.store, h, child)
    IN  <<r.ok, [c EXCEPT !.store = r.store, !.calls = @ \o r.calls]>>

DoUpsert(c, fi, h) ==
    LET u == upsert_file(c.files, c.nextId, fi.data_root, fi.rel_path,
                         fi.size, fi.mtime_ns, h, par2_name_for_hash(h))
        row == get_file(u.files, fi.data_root, fi.rel_path)
    IN  [c EXCEPT !.files = u.files, !.nextId = u.nextId,
                  !.written = @ \cup {row.id}]

\* _safe_delete_parity without the reference count.
_safe_delete_parity_always(c, h) ==
    [c EXCEPT !.store = delete_parity(@, h),
              !.calls = Append(@, Call("delete", h, "done"))]

_safe_delete_parity(c, h) ==
    IF Cardinality(get_files_by_hash(c.files, h)) <= 1
    THEN [c EXCEPT !.store = delete_parity(@, h),
                   !.calls = Append(@, Call("delete", h, "done"))]
    ELSE c

_delete_file_and_parity(c, rec) ==
    LET c1 == _safe_delete_parity(c, rec.content_hash)
    IN  [c1 EXCEPT !.files = delete_file(@, rec.id),
                   !.stats.files_deleted = @ + 1]

MinId(rows) == CHOOSE r \in rows : \A q \in rows : r.id <= q.id

\* _try_match_move that takes any row of the hash, disappeared or not.
_try_match_move_any(c, fi, h, seen) ==
    LET candidates == get_files_by_hash(c.files, h)
        same == {r \in candidates : r.data_root = fi.data_root}
        best == IF same # {} THEN MinId(same) ELSE MinId(candidates)
    IN  IF candidates = {} THEN <<FALSE, c>>
        ELSE <<TRUE,
               [c EXCEPT !.files =
                    update_mtime(update_path(@, best.id, fi.rel_path, fi.data_root),
                                 best.id, fi.mtime_ns)]>>

\* _try_match_move that inserts a row for the new path and keeps the old one.
_try_match_move_insert(c, fi, h, seen) ==
    LET candidates == get_files_by_hash(c.files, h)
        disappeared == {r \in candidates : PathOf(r) \notin seen}
    IN  IF disappeared = {} THEN <<FALSE, c>>
        ELSE <<TRUE, DoUpsert(c, fi, h)>>

\* _try_match_move that takes the first row of the hash that disappeared,
\* whatever its data root.
_try_match_move_first(c, fi, h, seen) ==
    LET candidates == get_files_by_hash(c.files, h)
        disappeared == {r \in candidates : PathOf(r) \notin seen}
        best == MinId(disappeared)
    IN  IF disappeared = {} THEN <<FALSE, c>>
        ELSE <<TRUE,
               [c EXCEPT !.files =
                    update_mtime(update_path(@, best.id, fi.rel_path, fi.data_root),
                                 best.id, fi.mtime_ns)]>>

\* _try_match_move: <<moved, context>>
_try_match_move(c, fi, h, seen) ==
    LET candidates == get_files_by_hash(c.files, h)
        disappeared == {r \in candidates : PathOf(r) \notin seen}
        same == {r \in disappeared : r.data_root = fi.data_root}
        best == IF same # {} THEN MinId(same) ELSE MinId(disappeared)
    IN  IF disappeared = {} THEN <<FALSE, c>>
        ELSE <<TRUE,
               [c EXCEPT !.files =
                    update_mtime(update_path(@, best.id, fi.rel_path, fi.data_root),
                                 best.id, fi.mtime_ns)]>>

\* Phase2Modify that deletes the old parity before it creates the new one.
Phase2Modify_delete_first(c, fi, existing, content_hash, vo, child) ==
    LET c0 == LogLine(c, "Modified", PathOf(fi))
        cr == DoCreate(_safe_delete_parity(c0, existing.content_hash),
                       content_hash, child)
    IN  IF vo THEN c0
        ELSE IF cr[1]
        THEN LET c2 == DoUpsert(cr[2], fi, content_hash)
             IN  [c2 EXCEPT !.stats.files_created = @ + 1]
        ELSE AddError(cr[2], "parity create failed")

\* Phase 2, a path with a row whose hash differs: regenerate the parity.
\* A modify that deletes the old parity without asking who else has the hash.
Phase2Modify_unsafe_delete(c, fi, existing, content_hash, vo, child) ==
    LET c0 == LogLine(c, "Modified", PathOf(fi))
        cr == DoCreate(c0, content_hash, child)
    IN  IF vo THEN c0
        ELSE IF cr[1]
        THEN LET c1 == [cr[2] EXCEPT
                           !.store = delete_parity(@, existing.content_hash),
                           !.calls = Append(@, Call("delete", existing.content_hash,
                                                    "done"))]
                 c2 == DoUpsert(c1, fi, content_hash)
             IN  [c2 EXCEPT !.stats.files_created = @ + 1]
        ELSE AddError(cr[2], "parity create failed")

Phase2Modify(c, fi, existing, content_hash, vo, child) ==
    LET c0 == LogLine(c, "Modified", PathOf(fi))
        cr == DoCreate(c0, content_hash, child)
    IN  IF vo THEN c0
        ELSE IF cr[1]
        THEN LET c2 == DoUpsert(_safe_delete_parity(cr[2], existing.content_hash),
                                fi, content_hash)
             IN  [c2 EXCEPT !.stats.files_created = @ + 1]
        ELSE AddError(cr[2], "parity create failed")

\* Phase2NewPath that inserts the row whether create_parity succeeds or not.
Phase2NewPath_insert_anyway(c, fi, content_hash, vo, seen, child) ==
    LET mv == _try_match_move(c, fi, content_hash, seen)
        cr == DoCreate(c, content_hash, child)
        c2 == DoUpsert(cr[2], fi, content_hash)
    IN  IF mv[1]
        THEN LogLine([mv[2] EXCEPT !.stats.files_moved = @ + 1], "Moved", PathOf(fi))
        ELSE IF vo THEN c
        ELSE IF cr[1]
        THEN LogLine([c2 EXCEPT !.stats.files_created = @ + 1], "New", PathOf(fi))
        ELSE AddError(c2, "parity create failed")

\* Phase 2, a path without a row: a move, or else a new file.
Phase2NewPath(c, fi, content_hash, vo, seen, child) ==
    LET mv == _try_match_move(c, fi, content_hash, seen)
        cr == DoCreate(c, content_hash, child)
    IN  IF mv[1]
        THEN LogLine([mv[2] EXCEPT !.stats.files_moved = @ + 1], "Moved", PathOf(fi))
        ELSE IF vo THEN c
        ELSE IF cr[1]
        THEN LET c2 == DoUpsert(cr[2], fi, content_hash)
             IN  LogLine([c2 EXCEPT !.stats.files_created = @ + 1], "New", PathOf(fi))
        ELSE AddError(cr[2], "parity create failed")

\* Phase2File in which a file that cannot be hashed is skipped silently.
Phase2File_hash_error_silent(c, fi, vo, seen, d, hash_ok, child) ==
    LET content_hash == sha256_file(d, fi)
        existing == get_file(c.files, fi.data_root, fi.rel_path)
    IN  IF ~hash_ok THEN c
        ELSE IF existing # None
        THEN IF existing.content_hash = content_hash
             THEN LogLine([c EXCEPT !.files = update_mtime(@, existing.id, fi.mtime_ns)],
                          "Touched", PathOf(fi))
             ELSE Phase2Modify(c, fi, existing, content_hash, vo, child)
        ELSE Phase2NewPath(c, fi, content_hash, vo, seen, child)

\* One iteration of the phase-2 loop for fi.
Phase2File(c, fi, vo, seen, d, hash_ok, child) ==
    LET content_hash == sha256_file(d, fi)
        existing == get_file(c.files, fi.data_root, fi.rel_path)
    IN  IF ~hash_ok THEN AddError(c, "hash error")
        ELSE IF existing # None
        THEN IF existing.content_hash = content_hash
             THEN LogLine([c EXCEPT !.files = update_mtime(@, existing.id, fi.mtime_ns)],
                          "Touched", PathOf(fi))
             ELSE Phase2Modify(c, fi, existing, content_hash, vo, child)
        ELSE Phase2NewPath(c, fi, content_hash, vo, seen, child)

\* _handle_missing_parity that takes a changed hash for damage.
_handle_missing_parity_as_damage(c, fi, rec, d, now, hash_ok, child) ==
    IF ~hash_ok THEN AddError(c, "hash error during parity re-create")
    ELSE
    LET content_hash == sha256_file(d, fi)
        cr == DoCreate(c, content_hash, child)
    IN  IF content_hash = rec.content_hash
        THEN IF cr[1]
             THEN LogLine([cr[2] EXCEPT !.stats.parity_recreated = @ + 1,
                                        !.files = mark_verified(@, rec.id, now)],
                          "Re-created missing parity", PathOf(fi))
             ELSE AddError(cr[2], "parity re-create failed")
        ELSE IF cr[1]
             THEN LET c2 == DoUpsert(_safe_delete_parity(cr[2], rec.content_hash),
                                     fi, content_hash)
                  IN  LogLine([c2 EXCEPT !.stats.parity_recreated = @ + 1,
                                         !.stats.files_damaged = @ + 1],
                              "Sneaky modification", PathOf(fi))
             ELSE AddError(LogLine(cr[2], "Sneaky modification", PathOf(fi)),
                           "parity create failed (sneaky mod)")

_handle_missing_parity(c, fi, rec, d, now, hash_ok, child) ==
    IF ~hash_ok THEN AddError(c, "hash error during parity re-create")
    ELSE
    LET content_hash == sha256_file(d, fi)
        cr == DoCreate(c, content_hash, child)
    IN  IF content_hash = rec.content_hash
        THEN IF cr[1]
             THEN LogLine([cr[2] EXCEPT !.stats.parity_recreated = @ + 1,
                                        !.files = mark_verified(@, rec.id, now)],
                          "Re-created missing parity", PathOf(fi))
             ELSE AddError(cr[2], "parity re-create failed")
        ELSE IF cr[1]
             THEN LET c2 == DoUpsert(_safe_delete_parity(cr[2], rec.content_hash),
                                     fi, content_hash)
                  IN  LogLine([c2 EXCEPT !.stats.parity_recreated = @ + 1],
                              "Sneaky modification", PathOf(fi))
             ELSE AddError(LogLine(cr[2], "Sneaky modification", PathOf(fi)),
                           "parity create failed (sneaky mod)")

\* Phase3Damaged that marks the row and forgets the counter.
Phase3Damaged_uncounted(c, fi, rec) ==
    LogLine([c EXCEPT !.files = update_status(@, rec.id, "damaged")],
            "DAMAGED", PathOf(fi))

\* Phase 3, the verifier reports damage.
\* A damaged branch that also counts the file as one whose parity was made
\* again.
Phase3Damaged_counted_twice(c, fi, rec) ==
    LogLine([c EXCEPT !.stats.files_damaged = @ + 1,
                      !.stats.parity_recreated = @ + 1,
                      !.files = update_status(@, rec.id, "damaged")],
            "DAMAGED", PathOf(fi))

Phase3Damaged(c, fi, rec) ==
    LogLine([c EXCEPT !.stats.files_damaged = @ + 1,
                      !.files = update_status(@, rec.id, "damaged")],
            "DAMAGED", PathOf(fi))

\* One iteration of the phase-3 loop for the pair (fi, rec).
Phase3File(c, fi, rec, vo, d, now, vchild, hash_ok, child) ==
    LET result == verify_parity(c.store, rec.content_hash, vchild)
        c0 == [c EXCEPT !.calls = Append(@, Call("verify", rec.content_hash, result)),
                        !.stats.files_verified = @ + 1]
    IN  IF result = "ok"
        THEN [c0 EXCEPT !.files = mark_verified(@, rec.id, now)]
        ELSE IF result = "damaged"
        THEN Phase3Damaged(c0, fi, rec)
        ELSE IF result = "missing_parity"
        THEN IF vo
             THEN AddError(LogLine(c0, "Missing parity", PathOf(fi)), "missing parity")
             ELSE _handle_missing_parity(c0, fi, rec, d, now, hash_ok, child)
        ELSE AddError(c0, "verify error")

\* _exceeds_max_file_size that takes a maximum of 0 for a limit.
_exceeds_max_file_size_nozero(cf, d, p) == d[p].size > cf.max_file_size

_exceeds_max_file_size(cf, d, p) ==
    cf.max_file_size # 0 /\ d[p].size > cf.max_file_size

\* Phase4Row that tests the components of rel_path only, not the root label.
Phase4Row_rel_only(c, rec, seen, d, cf) ==
    IF PathOf(rec) \in seen THEN c
    ELSE IF d[PathOf(rec)] # NoFile
    THEN IF \E i \in 1..Len(rec.rel_path) :
                should_exclude(rec.rel_path[i], cf.exclude_patterns)
              \/ _exceeds_max_file_size(cf, d, PathOf(rec))
         THEN LogLine(_delete_file_and_parity(c, rec), "Excluded", PathOf(rec))
         ELSE LogLine([c EXCEPT !.files = update_status(@, rec.id, "truncated"),
                                !.stats.files_truncated = @ + 1],
                      "Truncated", PathOf(rec))
    ELSE LogLine(_delete_file_and_parity(c, rec), "Deleted", PathOf(rec))

\* One iteration of the phase-4 loop for the row rec.
Phase4Row(c, rec, seen, d, cf) ==
    IF PathOf(rec) \in seen THEN c
    ELSE IF d[PathOf(rec)] # NoFile
    THEN IF \/ should_exclude(rec.data_root, cf.exclude_patterns)
            \/ \E i \in 1..Len(rec.rel_path) :
                   should_exclude(rec.rel_path[i], cf.exclude_patterns)
         THEN LogLine(_delete_file_and_parity(c, rec), "Excluded", PathOf(rec))
         ELSE IF _exceeds_max_file_size(cf, d, PathOf(rec))
         THEN LogLine(_delete_file_and_parity(c, rec), "Exceeds max file size",
                      PathOf(rec))
         ELSE LogLine([c EXCEPT !.files = update_status(@, rec.id, "truncated"),
                                !.stats.files_truncated = @ + 1],
                      "Truncated", PathOf(rec))
    ELSE LogLine(_delete_file_and_parity(c, rec), "Deleted", PathOf(rec))

\* The base files of the store: named *.par2 and without ".vol".
IsBase(f) == f[2] = ".par2"

\* Orphans that does not consult the manifest.
Orphans_all(c) == {f \in c.store : IsBase(f)}

Orphans(c) == {f \in c.store : IsBase(f) /\ ~has_par2_name(c.files, f)}

\* stem.ljust(64, "0")
pseudo_hash(f) == <<f[1], 0>>

RECURSIVE _cleanup_orphan_parity(_)
_cleanup_orphan_parity(c) ==
    IF Orphans(c) = {} THEN c
    ELSE LET o == CHOOSE f \in Orphans(c) : \A g \in Orphans(c) : f[1] <= g[1]
         IN  _cleanup_orphan_parity(
                 [c EXCEPT !.store = delete_parity(@, pseudo_hash(o)),
                           !.calls = Append(@, Call("delete", pseudo_hash(o), "done")),
                           !.stats.orphan_parity_cleaned = @ + 1])

-----------------------------------------------------------------------------
(* The environment: the data tree, the parity directory and the          *)
(* configuration change between runs.                                     *)

Idle == pc = "idle"

RunVars == <<files, nextId, pc, verify_only, seen_on_disk, needs_hash,
             unchanged, to_verify, cursor, stats, calls, log, runCount, runs,
             storeAtStart, written, backToBack>>

EnvChange ==
    /\ Idle
    /\ envSteps < MaxEnv
    /\ runCount < MaxRuns
    /\ envSteps' = envSteps + 1
    /\ quiet' = "no"
    /\ UNCHANGED <<RunVars, universe, held>>

\* A file is created, or it is overwritten and/or its mtime changes.
EnvWrite(p, ct, m) ==
    /\ EnvChange
    /\ disk[p] # [hash |-> ct.hash, size |-> ct.size, mtime_ns |-> m]
    /\ disk[p] = NoFile => m = 1
    /\ disk' = [disk EXCEPT ![p] = [hash |-> ct.hash, size |-> ct.size, mtime_ns |-> m]]
    /\ UNCHANGED <<cfg, store>>

EnvDelete(p) ==
    /\ EnvChange
    /\ disk[p] # NoFile
    /\ disk' = [disk EXCEPT ![p] = NoFile]
    /\ UNCHANGED <<cfg, store>>

\* A rename keeps the content and the mtime.
EnvMove(p, q) ==
    /\ EnvChange
    /\ disk[p] # NoFile
    /\ disk[q] = NoFile
    /\ disk' = [disk EXCEPT ![p] = NoFile, ![q] = disk[p]]
    /\ UNCHANGED <<cfg, store>>

\* A base file of the parity directory is lost.
EnvLoseParity(f) ==
    /\ EnvChange
    /\ f \in store
    /\ IsBase(f)
    /\ store' = store \ {f}
    /\ UNCHANGED <<cfg, disk>>

\* Parity files that no row refers to appear (left by an earlier install).
EnvStrayParity(ct) ==
    /\ EnvChange
    /\ par2_name_for_hash(ct.hash) \notin store
    /\ ~has_par2_name(files, par2_name_for_hash(ct.hash))
    /\ store' = store \cup {par2_name_for_hash(ct.hash), vol_name_for_hash(ct.hash)}
    /\ UNCHANGED <<cfg, disk>>

\* One environment variable of the next invocation differs.
EnvConfigure(c) ==
    /\ EnvChange
    /\ Cardinality({k \in DOMAIN c : c[k] # cfg[k]}) = 1
    /\ cfg' = c
    /\ UNCHANGED <<disk, store>>

-----------------------------------------------------------------------------
(* main.py: _run_scan, and reconcile() step by step *)

IsUnchanged(fs, fi) ==
    LET existing == get_file(fs, fi.data_root, fi.rel_path)
    IN  /\ existing # None
        /\ existing.mtime_ns = fi.mtime_ns
        /\ existing.file_size = fi.size

\* start_run, scan_data_roots and phase 1 of reconcile.
BeginScan(vo) ==
    /\ Idle
    /\ runCount < MaxRuns
    /\ LET scanned == scan_data_roots(disk, cfg)
           unch == SelectSeq(scanned, LAMBDA fi : IsUnchanged(files, fi))
       IN  /\ seen_on_disk' = {PathOf(scanned[i]) : i \in 1..Len(scanned)}
           /\ needs_hash' = SelectSeq(scanned, LAMBDA fi : ~IsUnchanged(files, fi))
           /\ unchanged' = [i \in 1..Len(unch) |->
                               [fi |-> unch[i],
                                rec |-> get_file(files, unch[i].data_root,
                                                 unch[i].rel_path)]]
           /\ stats' = [RunStats EXCEPT !.files_scanned = Len(scanned)]
    /\ runCount' = runCount + 1
    /\ runs' = start_run(runs)
    /\ verify_only' = vo
    /\ pc' = "phase2"
    /\ to_verify' = <<>>
    /\ cursor' = <<>>
    /\ calls' = <<>>
    /\ log' = None
    /\ storeAtStart' = store
    /\ written' = {}
    /\ backToBack' = IF vo THEN "no" ELSE quiet
    /\ UNCHANGED <<disk, cfg, universe, held, files, nextId, store, envSteps, quiet>>

\* What a reconcile step leaves alone.
StepFrame == UNCHANGED <<disk, cfg, universe, held, verify_only, seen_on_disk,
                         runCount, runs, envSteps, storeAtStart, quiet, backToBack>>

Apply(c) ==
    /\ files' = c.files
    /\ nextId' = c.nextId
    /\ store' = c.store
    /\ stats' = c.stats
    /\ calls' = c.calls
    /\ written' = c.written
    /\ log' = c.log

Phase2Step(hash_ok, child) ==
    /\ pc = "phase2"
    /\ needs_hash # <<>>
    /\ Apply(Phase2File(Ctx, Head(needs_hash), verify_only, seen_on_disk, disk,
                        hash_ok, child))
    /\ needs_hash' = Tail(needs_hash)
    /\ UNCHANGED <<pc, unchanged, to_verify, cursor>>
    /\ StepFrame

\* max(1, len(unchanged) * verify_percent // 100)
\* The sample size without the floor of one.
sample_size_unfloored(n, percent) == (n * percent) \div 100

sample_size(n, percent) ==
    LET k == (n * percent) \div 100
    IN  IF k >= 1 THEN k ELSE 1

\* random.sample: k distinct positions of the list, in any order.
Samples(n, k) == {s \in [1..k -> 1..n] : \A i, j \in 1..k : i # j => s[i] # s[j]}

\* End of phase 2; phase 3 chooses what to verify.
Phase3Sample ==
    /\ pc = "phase2"
    /\ needs_hash = <<>>
    /\ IF unchanged = <<>> \/ cfg.verify_percent >= 100
       THEN to_verify' = unchanged
       ELSE \E s \in Samples(Len(unchanged),
                             sample_size(Len(unchanged), cfg.verify_percent)) :
                to_verify' = [i \in DOMAIN s |-> unchanged[s[i]]]
    /\ pc' = "phase3"
    /\ calls' = <<>>
    /\ log' = None
    /\ UNCHANGED <<files, nextId, store, stats, written, needs_hash, unchanged,
                   cursor>>
    /\ StepFrame

Phase3Step(vchild, hash_ok, child) ==
    /\ pc = "phase3"
    /\ to_verify # <<>>
    /\ Apply(Phase3File(Ctx, Head(to_verify).fi, Head(to_verify).rec,
                        verify_only, disk, runCount, vchild, hash_ok, child))
    /\ to_verify' = Tail(to_verify)
    /\ UNCHANGED <<pc, unchanged, needs_hash, cursor>>
    /\ StepFrame

\* A cursor that ends before the last row.
RECURSIVE SortedIds_one_short(_)
SortedIds_one_short(ids) ==
    IF Cardinality(ids) <= 1 THEN <<>>
    ELSE LET m == CHOOSE i \in ids : \A j \in ids : i <= j
         IN  <<m>> \o SortedIds_one_short(ids \ {m})

RECURSIVE SortedIds(_)
SortedIds(ids) ==
    IF ids = {} THEN <<>>
    ELSE LET m == CHOOSE i \in ids : \A j \in ids : i <= j
         IN  <<m>> \o SortedIds(ids \ {m})

\* End of phase 3; phase 4 opens its cursor unless verify_only.
Phase4Begin ==
    /\ pc = "phase3"
    /\ to_verify = <<>>
    /\ IF verify_only
       THEN pc' = "finish" /\ cursor' = <<>>
       ELSE pc' = "phase4" /\ cursor' = SortedIds({r.id : r \in files})
    /\ calls' = <<>>
    /\ log' = None
    /\ UNCHANGED <<files, nextId, store, stats, written, needs_hash, unchanged,
                   to_verify>>
    /\ StepFrame

RowById(fs, id) == CHOOSE r \in fs : r.id = id

Phase4Step ==
    /\ pc = "phase4"
    /\ cursor # <<>>
    /\ Apply(Phase4Row(Ctx, RowById(files, Head(cursor)), seen_on_disk, disk, cfg))
    /\ cursor' = Tail(cursor)
    /\ UNCHANGED <<pc, unchanged, needs_hash, to_verify>>
    /\ StepFrame

\* End of phase 4 and phase 5; reconcile returns.
Phase5 ==
    /\ pc = "phase4"
    /\ cursor = <<>>
    /\ Apply(_cleanup_orphan_parity(Ctx))
    /\ pc' = "finish"
    /\ UNCHANGED <<unchanged, needs_hash, to_verify, cursor>>
    /\ StepFrame

\* _run_scan that reports damage only.
_run_scan_damaged_only(st, vo) == IF st.files_damaged > 0 THEN 1 ELSE 0

\* The exit status of _run_scan.
_run_scan(st, vo) ==
    IF st.files_damaged > 0 \/ (~vo /\ st.files_truncated > 0) THEN 1 ELSE 0

\* finish_run; the command returns _run_scan(stats, verify_only).
FinishScan ==
    /\ pc = "finish"
    /\ pc' = "idle"
    /\ quiet' = IF verify_only THEN "no"
                ELSE IF stats.errors = <<>> THEN "clean" ELSE "errors"
    /\ stats' = RunStats
    /\ calls' = <<>>
    /\ log' = None
    /\ seen_on_disk' = {}
    /\ unchanged' = <<>>
    /\ storeAtStart' = {}
    /\ written' = {}
    /\ backToBack' = "no"
    /\ verify_only' = FALSE
    /\ runs' = finish_run(runs, runCount)
    /\ UNCHANGED <<disk, cfg, universe, held, files, nextId, store, needs_hash,
                   to_verify, cursor, runCount, envSteps>>

-----------------------------------------------------------------------------
Hashes == {ct.hash : ct \in universe}

InitCommon ==
    /\ disk = [p \in Paths |-> NoFile]
    /\ cfg = DefaultConfig
    /\ files = {}
    /\ nextId = 1
    /\ store = {}
    /\ pc = "idle"
    /\ verify_only = FALSE
    /\ seen_on_disk = {}
    /\ needs_hash = <<>>
    /\ unchanged = <<>>
    /\ to_verify = <<>>
    /\ cursor = <<>>
    /\ stats = RunStats
    /\ calls = <<>>
    /\ log = None
    /\ runCount = 0
    /\ runs = {}
    /\ envSteps = 0
    /\ storeAtStart = {}
    /\ written = {}
    /\ quiet = "no"
    /\ backToBack = "no"
    /\ cp = NoCall
    /\ vp = NoVerify
    /\ lock = 0
    /\ inv = [p \in Procs |-> NotInvoked]
    /\ txn = NoTxn
    /\ snap = NoSnap

Init == InitCommon /\ universe = ContentsDistinct

Env ==
    \/ \E p \in Paths, ct \in universe, m \in 1..MaxMtime : EnvWrite(p, ct, m)
    \/ \E p \in Paths : EnvDelete(p)
    \/ \E p, q \in Paths : EnvMove(p, q)
    \/ \E f \in store : EnvLoseParity(f)
    \/ \E ct \in universe : EnvStrayParity(ct)
    \/ \E c \in Configs : EnvConfigure(c)

Next ==
    \/ Env
    \/ \E vo \in BOOLEAN : BeginScan(vo)
    \/ \E hash_ok \in BOOLEAN, child \in Par2Results : Phase2Step(hash_ok, child)
    \/ Phase3Sample
    \/ \E vchild \in Par2Results, hash_ok \in BOOLEAN, child \in Par2Results :
           Phase3Step(vchild, hash_ok, child)
    \/ Phase4Begin
    \/ Phase4Step
    \/ Phase5
    \/ FinishScan

Spec == Init /\ [][Next]_vars

-----------------------------------------------------------------------------
(* parity.create_parity with its temporary directory and the moves of    *)
(* the produced files into by_hash.                                      *)

\* The files par2 create leaves in the temporary directory on exit code 0.
Produced(h) == {par2_name_for_hash(h), vol_name_for_hash(h)}

\* create_parity_call that runs the encoder without looking for the base file.
create_parity_call_always_encodes(st, h, child, moved) ==
    IF child = 0
    THEN IF moved = Produced(h)
         THEN [content_hash |-> h, result |-> "true",
               store |-> st \cup Produced(h), tmp |-> {}]
         ELSE [content_hash |-> h, result |-> "raised",
               store |-> st \cup moved, tmp |-> {}]
    ELSE [content_hash |-> h, result |-> "false", store |-> st, tmp |-> {}]

\* create_parity(source, h): child is the outcome of par2, moved the files
\* shutil.move has put into the final directory when it stops; a move that
\* fails raises out of create_parity. tmp is what is left of the temporary
\* directory after the finally clause.
create_parity_call(st, h, child, moved) ==
    IF par2_name_for_hash(h) \in st
    THEN [content_hash |-> h, result |-> "true", store |-> st, tmp |-> {}]
    ELSE IF child = 0
    THEN IF moved = Produced(h)
         THEN [content_hash |-> h, result |-> "true",
               store |-> st \cup Produced(h), tmp |-> {}]
         ELSE [content_hash |-> h, result |-> "raised",
               store |-> st \cup moved, tmp |-> {}]
    ELSE [content_hash |-> h, result |-> "false", store |-> st, tmp |-> {}]

\* What a call of the parity module leaves alone.
ParityFrame == UNCHANGED <<disk, cfg, universe, files, nextId, pc, verify_only,
                           seen_on_disk, needs_hash, unchanged, to_verify,
                           cursor, stats, calls, log, runCount, runs, envSteps,
                           storeAtStart, written, quiet, backToBack,
                           lock, inv, txn, snap>>

CreateParity(h, child, moved) ==
    LET r == create_parity_call(store, h, child, moved)
    IN  /\ store' = r.store
        /\ cp' = [content_hash |-> r.content_hash, result |-> r.result,
                  tmp |-> r.tmp]
        /\ UNCHANGED vp
        /\ ParityFrame

\* verify_parity(source, h): child is the outcome of par2 verify, which is
\* run only when the base file is there; nothing is written.
VerifyParity(h, child) ==
    /\ vp' = [content_hash |-> h,
              ran |-> par2_name_for_hash(h) \in store,
              child |-> IF par2_name_for_hash(h) \in store THEN child ELSE 0,
              result |-> verify_parity(store, h, child)]
    /\ UNCHANGED <<store, cp>>
    /\ ParityFrame

DeleteParity(h) ==
    /\ \E f \in store : f[1] = par2_name_for_hash(h)[1]
    /\ store' = delete_parity(store, h)
    /\ UNCHANGED <<cp, vp>>
    /\ ParityFrame

NextCreate ==
    \/ \E h \in Hashes, child \in Par2Results :
           \E moved \in SUBSET Produced(h) : CreateParity(h, child, moved)
    \/ \E h \in Hashes, child \in Par2Results : VerifyParity(h, child)
    \/ \E h \in Hashes : DeleteParity(h)

SpecCreate == Init /\ [][NextCreate]_vars

-----------------------------------------------------------------------------
(* main(): the lock file around a command.                                *)

\* What the lock handling of main() leaves alone.
LockFrame == UNCHANGED <<disk, cfg, universe, files, nextId, store, pc,
                         verify_only, seen_on_disk, needs_hash, unchanged,
                         to_verify, cursor, stats, calls, log, runCount, runs,
                         envSteps, storeAtStart, written, quiet, backToBack, cp,
                         vp, txn, snap>>

\* The exit statuses of a command: it returns 0 or 1, or raises.
Outcomes == {"0", "1", "raised"}

\* main() is started and opens the lock file.
Invoke(p) ==
    /\ inv[p].at \in {"none", "exited"}
    /\ inv' = [inv EXCEPT ![p] = [at |-> "flock", exit |-> "none", opened |-> FALSE]]
    /\ UNCHANGED lock
    /\ LockFrame

\* flock(LOCK_EX | LOCK_NB): taken when free, and the manifest is opened;
\* OSError when held, and main() returns 0 through the finally clause.
Flock(p) ==
    /\ inv[p].at = "flock"
    /\ IF lock = 0
       THEN /\ lock' = p
            /\ inv' = [inv EXCEPT ![p] = [at |-> "running", exit |-> "none",
                                          opened |-> TRUE]]
       ELSE /\ lock' = lock
            /\ inv' = [inv EXCEPT ![p] = [at |-> "exited", exit |-> "0",
                                          opened |-> FALSE]]
    /\ LockFrame

\* Finish in which an exception skips the closing of the lock file.
Finish_no_finally(p, outcome) ==
    /\ inv[p].at = "running"
    /\ inv' = [inv EXCEPT ![p] = [at |-> "exited", exit |-> outcome, opened |-> TRUE]]
    /\ lock' = IF outcome = "raised" THEN lock ELSE 0
    /\ LockFrame

\* The command returns or raises; manifest.close() and lock_file.close()
\* run in the finally clauses.
Finish(p, outcome) ==
    /\ inv[p].at = "running"
    /\ inv' = [inv EXCEPT ![p] = [at |-> "exited", exit |-> outcome, opened |-> TRUE]]
    /\ lock' = 0
    /\ LockFrame

NextLock ==
    \/ \E p \in Procs : Invoke(p)
    \/ \E p \in Procs : Flock(p)
    \/ \E p \in Procs, outcome \in Outcomes : Finish(p, outcome)

SpecLock == Init /\ [][NextLock]_vars

-----------------------------------------------------------------------------
(* main(): commands that start and finish a run under the lock.           *)

\* What a command changes besides the runs table and its own position.
RunsFrame == UNCHANGED <<disk, cfg, universe, files, nextId, store, pc,
                         verify_only, seen_on_disk, needs_hash, unchanged,
                         to_verify, cursor, stats, calls, log, envSteps,
                         storeAtStart, written, quiet, backToBack, cp, vp, txn,
                         snap>>

\* _run_scan, or cmd_repair with something to repair, calls start_run.
StartRun(p) ==
    /\ inv[p].at = "running"
    /\ runCount < MaxRuns
    /\ runs' = start_run(runs)
    /\ runCount' = runCount + 1
    /\ inv' = [inv EXCEPT ![p].at = "in_run"]
    /\ UNCHANGED lock
    /\ RunsFrame

\* The command gets to finish_run and returns 0 or 1, or an exception (or a
\* signal) ends it before finish_run: no handler and no finally clause of
\* the command calls finish_run.  main() closes the lock file either way.
EndRun(p, outcome) ==
    /\ inv[p].at = "in_run"
    /\ runs' = IF outcome = "raised" THEN runs ELSE finish_run(runs, runCount)
    /\ inv' = [inv EXCEPT ![p] = [at |-> "exited", exit |-> outcome, opened |-> TRUE]]
    /\ lock' = 0
    /\ UNCHANGED runCount
    /\ RunsFrame

NextRuns ==
    \/ \E p \in Procs : Invoke(p)
    \/ \E p \in Procs : Flock(p)
    \/ \E p \in Procs, outcome \in Outcomes : Finish(p, outcome)
    \/ \E p \in Procs : StartRun(p)
    \/ \E p \in Procs, outcome \in Outcomes : EndRun(p, outcome)

SpecRuns == Init /\ [][NextRuns]_vars

-----------------------------------------------------------------------------
(* Manifest.transaction() and Manifest._commit() under writes.           *)

\* _commit that commits inside a transaction() block too.
_commit_always(t, fs, nid) == [t EXCEPT !.committed = Snapshot(fs, nid)]

\* _commit: conn.commit() unless inside a transaction() block.
_commit(t, fs, nid) ==
    IF t.in_transaction THEN t ELSE [t EXCEPT !.committed = Snapshot(fs, nid)]

\* What the manifest connection leaves alone.
TxnFrame == UNCHANGED <<disk, cfg, universe, store, pc, verify_only,
                        seen_on_disk, needs_hash, unchanged, to_verify, cursor,
                        stats, calls, log, runCount, runs, envSteps,
                        storeAtStart, written, quiet, backToBack, cp, vp, lock,
                        inv, snap>>

\* A write method of Manifest followed by its _commit().
TxnWrite(fs, nid) ==
    /\ files' = fs
    /\ nextId' = nid
    /\ txn' = [_commit(txn, fs, nid) EXCEPT !.wrote =
                   IF txn.scopes = <<>> THEN @
                   ELSE @ \cup {txn.scopes[Len(txn.scopes)]}]
    /\ TxnFrame

TxnUpsert(p, h) ==
    LET u == upsert_file(files, nextId, p.data_root, p.rel_path, 2, 1, h,
                         par2_name_for_hash(h))
    IN  /\ u.nextId <= MaxTxnId + 1
        /\ TxnWrite(u.files, u.nextId)

TxnUpdateStatus(id) ==
    /\ id \in {r.id : r \in files}
    /\ TxnWrite(update_status(files, id, "damaged"), nextId)

TxnDelete(id) ==
    /\ id \in {r.id : r \in files}
    /\ TxnWrite(delete_file(files, id), nextId)

\* with manifest.transaction(): the outermost scope sets _in_transaction, a
\* scope entered inside another only yields.
TxnEnter ==
    /\ Len(txn.scopes) < MaxDepth
    /\ txn' = IF txn.in_transaction
              THEN [txn EXCEPT !.scopes = Append(@, "inner")]
              ELSE [txn EXCEPT !.scopes = Append(@, "outer"),
                               !.in_transaction = TRUE,
                               !.entry = Snapshot(files, nextId),
                               !.wrote = {}]
    /\ UNCHANGED <<files, nextId>>
    /\ TxnFrame

\* TxnExit in which every scope, nested or not, commits and leaves
\* transaction mode when its body ends.
TxnExit_every_scope_commits ==
    /\ txn.scopes # <<>>
    /\ txn' = [txn EXCEPT !.scopes = SubSeq(@, 1, Len(@) - 1),
                         !.in_transaction = FALSE,
                         !.committed = Snapshot(files, nextId),
                         !.ended = "commit"]
    /\ UNCHANGED <<files, nextId>>
    /\ TxnFrame

\* The body of the innermost open scope ends normally.
TxnExit ==
    /\ txn.scopes # <<>>
    /\ txn' = IF txn.scopes[Len(txn.scopes)] = "outer"
              THEN [txn EXCEPT !.scopes = <<>>, !.in_transaction = FALSE,
                               !.committed = Snapshot(files, nextId),
                               !.ended = "commit"]
              ELSE [txn EXCEPT !.scopes = SubSeq(@, 1, Len(@) - 1)]
    /\ UNCHANGED <<files, nextId>>
    /\ TxnFrame

\* The body of the innermost scope raises and the exception is caught in the
\* body of scope number k (0: nowhere, it leaves the outermost scope, which
\* rolls back and clears _in_transaction).  A nested scope it passes through
\* has no handler of its own.
TxnFail(k) ==
    /\ txn.scopes # <<>>
    /\ k < Len(txn.scopes)
    /\ IF k = 0
       THEN /\ files' = txn.committed.files
            /\ nextId' = txn.committed.nextId
            /\ txn' = [txn EXCEPT !.scopes = <<>>, !.in_transaction = FALSE,
                                 !.ended = "rollback"]
       ELSE /\ txn' = [txn EXCEPT !.scopes = SubSeq(@, 1, k)]
            /\ UNCHANGED <<files, nextId>>
    /\ TxnFrame

NextTxn ==
    \/ \E p \in {P_ARCHIVE_A, P_PHOTOS_A}, h \in {H1, H2} : TxnUpsert(p, h)
    \/ \E id \in 1..MaxTxnId : TxnUpdateStatus(id)
    \/ \E id \in 1..MaxTxnId : TxnDelete(id)
    \/ TxnEnter
    \/ TxnExit
    \/ \E k \in 0..(MaxDepth - 1) : TxnFail(k)

SpecTxn == Init /\ [][NextTxn]_vars

-----------------------------------------------------------------------------
(* cmd_repair: one step per record of the list fetched at its start.      *)

\* repair_file: false without a base file; else true iff par2 repair exits 0.
repair_file(st, h, child) == par2_name_for_hash(h) \in st /\ child = 0

\* The file as par2 repair rewrites it: the content the parity was made of.
Repaired(d, p, h, m) ==
    [d EXCEPT ![p] = [hash |-> h,
                      size |-> (CHOOSE ct \in universe : ct.hash = h).size,
                      mtime_ns |-> m]]

RepairCtx == [files |-> files, store |-> store, stats |-> stats, calls |-> <<>>,
              log |-> None, disk |-> disk]

\* RepairIntact that deletes the parity without counting the rows of the hash.
RepairIntact_always_delete(c, rec, cchild) ==
    LET c1 == [c EXCEPT !.store = delete_parity(@, rec.content_hash),
                        !.calls = Append(@, Call("delete", rec.content_hash, "done"))]
        cr == DoCreate(c1, rec.content_hash, cchild)
    IN  IF cr[1]
        THEN LogLine([cr[2] EXCEPT !.files =
                         mark_verified(update_status(@, rec.id, "ok"), rec.id,
                                       runCount)],
                     "Re-created parity", PathOf(rec))
        ELSE AddError(cr[2], "parity re-create failed")

\* cmd_repair, hash equal: the parity is taken for corrupt and made again.
\* An intact-file branch that marks the row ok whether or not the parity
\* could be made again.
RepairIntact_ok_anyway(c, rec, cchild) ==
    LET c1 == IF Cardinality(get_files_by_hash(c.files, rec.content_hash)) <= 1
              THEN [c EXCEPT !.store = delete_parity(@, rec.content_hash),
                             !.calls = Append(@, Call("delete", rec.content_hash,
                                                      "done"))]
              ELSE c
        cr == DoCreate(c1, rec.content_hash, cchild)
        c2 == [cr[2] EXCEPT !.files =
                   mark_verified(update_status(@, rec.id, "ok"), rec.id, runCount)]
    IN  IF cr[1]
        THEN LogLine(c2, "Re-created parity", PathOf(rec))
        ELSE AddError(c2, "parity re-create failed")

RepairIntact(c, rec, cchild) ==
    LET c1 == IF Cardinality(get_files_by_hash(c.files, rec.content_hash)) <= 1
              THEN [c EXCEPT !.store = delete_parity(@, rec.content_hash),
                             !.calls = Append(@, Call("delete", rec.content_hash,
                                                      "done"))]
              ELSE c
        cr == DoCreate(c1, rec.content_hash, cchild)
    IN  IF cr[1]
        THEN LogLine([cr[2] EXCEPT !.files =
                         mark_verified(update_status(@, rec.id, "ok"), rec.id,
                                       runCount)],
                     "Re-created parity", PathOf(rec))
        ELSE AddError(cr[2], "parity re-create failed")

\* RepairDamaged that keeps a successfully repaired row as repaired.
RepairDamaged_no_verify(c, rec, rchild, vchild, m) ==
    IF repair_file(c.store, rec.content_hash, rchild)
    THEN [c EXCEPT !.disk = Repaired(@, PathOf(rec), rec.content_hash, m),
                   !.stats.files_repaired = @ + 1,
                   !.calls = Append(@, Call("repair", rec.content_hash, "true")),
                   !.files = update_status(@, rec.id, "repaired")]
    ELSE AddError([c EXCEPT !.calls = Append(@, Call("repair", rec.content_hash,
                                                     "false"))],
                  "repair failed")

\* cmd_repair, hash different: repair_file, then verify_parity again.
RepairDamaged(c, rec, rchild, vchild, m) ==
    IF repair_file(c.store, rec.content_hash, rchild)
    THEN LET result == verify_parity(c.store, rec.content_hash, vchild)
             c1 == [c EXCEPT !.disk = Repaired(@, PathOf(rec), rec.content_hash, m),
                             !.stats.files_repaired = @ + 1,
                             !.calls = @ \o <<Call("repair", rec.content_hash, "true"),
                                              Call("verify", rec.content_hash, result)>>]
         IN  IF result = "ok"
             THEN [c1 EXCEPT !.files =
                       mark_verified(update_status(@, rec.id, "ok"), rec.id, runCount)]
             ELSE LogLine([c1 EXCEPT !.files = update_status(@, rec.id, "damaged")],
                          "Post-repair verify failed", PathOf(rec))
    ELSE AddError([c EXCEPT !.calls = Append(@, Call("repair", rec.content_hash,
                                                     "false"))],
                  "repair failed")

\* One iteration of the loop of cmd_repair for the record rec.
RepairRow(c, rec, hash_ok, rchild, vchild, cchild, m) ==
    IF c.disk[PathOf(rec)] = NoFile THEN AddError(c, "not found")
    ELSE IF ~hash_ok THEN AddError(c, "hash error")
    ELSE IF c.disk[PathOf(rec)].hash = rec.content_hash
    THEN RepairIntact(c, rec, cchild)
    ELSE RepairDamaged(c, rec, rchild, vchild, m)

\* The exit status of cmd_repair.
cmd_repair(st) == IF st.errors = <<>> THEN 0 ELSE 1

\* What cmd_repair leaves alone.
RepairFrame == UNCHANGED <<cfg, universe, nextId, verify_only, seen_on_disk,
                           needs_hash, unchanged, to_verify, envSteps,
                           storeAtStart, written, quiet, backToBack, held>>

\* cmd_repair up to the loop: without damaged or repaired rows it returns 0
\* at once, else it opens a run.
RepairBegin ==
    /\ Idle
    /\ LET damaged == get_files_by_status(files, {"damaged", "repaired"})
       IN  IF damaged = {}
           THEN /\ pc' = "returned"
                /\ UNCHANGED <<runCount, runs>>
                /\ cursor' = <<>>
           ELSE /\ pc' = "repair"
                /\ runCount' = runCount + 1
                /\ runs' = start_run(runs)
                /\ cursor' = SortedIds({r.id : r \in damaged})
    /\ stats' = RunStats
    /\ calls' = <<>>
    /\ log' = None
    /\ UNCHANGED <<disk, files, store>>
    /\ RepairFrame

\* The inputs of an iteration that its branch does not consult are fixed.
RepairInputs(rec, hash_ok, rchild, vchild, cchild, m) ==
    LET gone == disk[PathOf(rec)] = NoFile
        intact == ~gone /\ hash_ok /\ disk[PathOf(rec)].hash = rec.content_hash
        repairing == ~gone /\ hash_ok /\ ~intact
        repaired == repairing /\ repair_file(store, rec.content_hash, rchild)
    IN  /\ gone => hash_ok
        /\ ~intact => cchild = 0
        /\ ~repairing => rchild = 0
        /\ ~repaired => vchild = 0 /\ m = 1

RepairStep(hash_ok, rchild, vchild, cchild, m) ==
    /\ pc = "repair"
    /\ cursor # <<>>
    /\ RepairInputs(RowById(files, Head(cursor)), hash_ok, rchild, vchild, cchild, m)
    /\ LET c == RepairRow(RepairCtx, RowById(files, Head(cursor)), hash_ok,
                          rchild, vchild, cchild, m)
       IN  /\ files' = c.files
           /\ store' = c.store
           /\ stats' = c.stats
           /\ calls' = c.calls
           /\ log' = c.log
           /\ disk' = c.disk
    /\ cursor' = Tail(cursor)
    /\ UNCHANGED <<pc, runCount, runs>>
    /\ RepairFrame

\* finish_run; cmd_repair returns cmd_repair(stats).
RepairFinish ==
    /\ pc = "repair"
    /\ cursor = <<>>
    /\ runs' = finish_run(runs, runCount)
    /\ pc' = "returned"
    /\ calls' = <<>>
    /\ log' = None
    /\ UNCHANGED <<disk, files, store, stats, cursor, runCount>>
    /\ RepairFrame

\* The manifests cmd_repair is started on: up to one row per path, left by
\* earlier runs in any status, over any content of the tree, with the parity
\* of each hash present or lost.
RepairPaths == <<P_ARCHIVE_A, P_PHOTOS_A>>

RepairHashes == {H1, H2}

Statuses == {"ok", "damaged", "truncated", "repaired"}

RowChoices == {None} \cup [hash : RepairHashes, status : Statuses]

\* The rows of a choice of hash and status per path, with ids in path order.
RowsOf(ch) ==
    LET present == SelectSeq(<<1, 2>>, LAMBDA i : ch[i] # None)
    IN  {Row(k, RepairPaths[present[k]].data_root, RepairPaths[present[k]].rel_path,
             2, 1, ch[present[k]].hash, par2_name_for_hash(ch[present[k]].hash),
             ch[present[k]].status, 0) : k \in 1..Len(present)}

InitRepair ==
    /\ universe = ContentsDistinct
    /\ cfg = DefaultConfig
    /\ \E ch \in [1..2 -> RowChoices] :
           /\ files = RowsOf(ch)
           /\ nextId = Cardinality(RowsOf(ch)) + 1
    /\ \E a, b \in {NoFile} \cup {[hash |-> ct.hash, size |-> ct.size, mtime_ns |-> 1] :
                                  ct \in universe} :
           disk = [p \in Paths |-> IF p = P_ARCHIVE_A THEN a
                                   ELSE IF p = P_PHOTOS_A THEN b ELSE NoFile]
    /\ \E hs \in SUBSET RepairHashes :
           store = UNION {Produced(h) : h \in hs}
    /\ pc = "idle"
    /\ verify_only = FALSE
    /\ seen_on_disk = {}
    /\ needs_hash = <<>>
    /\ unchanged = <<>>
    /\ to_verify = <<>>
    /\ cursor = <<>>
    /\ stats = RunStats
    /\ calls = <<>>
    /\ log = None
    /\ runCount = 1
    /\ runs = {[id |-> 1, finished |-> TRUE]}
    /\ envSteps = 0
    /\ storeAtStart = {}
    /\ written = {}
    /\ quiet = "no"
    /\ backToBack = "no"
    /\ cp = NoCall
    /\ vp = NoVerify
    /\ lock = 0
    /\ inv = [p \in Procs |-> NotInvoked]
    /\ txn = NoTxn
    /\ snap = NoSnap

NextRepair ==
    \/ RepairBegin
    \/ \E hash_ok \in BOOLEAN, rchild, vchild, cchild \in Par2Results,
          m \in 1..MaxMtime : RepairStep(hash_ok, rchild, vchild, cchild, m)
    \/ RepairFinish

SpecRepair == InitRepair /\ [][NextRepair]_vars

-----------------------------------------------------------------------------
(* One scan or verify over a manifest that holds two rows of one content, *)
(* as two scans of two copies of a file leave it, after any change of the *)
(* data tree and of the configuration.                                    *)

\* The two copies, in different data roots, sharing one parity set.
TwoCopies ==
    {Row(1, ARCHIVE, <<NAME_A>>, 2, 1, H1, par2_name_for_hash(H1), "ok", 0),
     Row(2, PHOTOS, <<NAME_A>>, 2, 1, H1, par2_name_for_hash(H1), "ok", 0)}

\* What a path can hold when the scan starts.
FilesThen == {NoFile} \cup {[hash |-> ct.hash, size |-> ct.size, mtime_ns |-> 1] :
                            ct \in {Content(H1, 2), Content(H2, 2), Content(H3, 1)}}

InitCopies ==
    /\ universe = ContentsDistinct
    /\ cfg \in {c \in Configs : c.verify_percent = 100}
    /\ disk \in [Paths -> FilesThen]
    /\ files = TwoCopies
    /\ nextId = 3
    /\ store = Produced(H1)
    /\ pc = "idle"
    /\ verify_only = FALSE
    /\ seen_on_disk = {}
    /\ needs_hash = <<>>
    /\ unchanged = <<>>
    /\ to_verify = <<>>
    /\ cursor = <<>>
    /\ stats = RunStats
    /\ calls = <<>>
    /\ log = None
    /\ runCount = MaxRuns - 1
    /\ runs = {[id |-> i, finished |-> TRUE] : i \in 1..(MaxRuns - 1)}
    /\ envSteps = 0
    /\ storeAtStart = {}
    /\ written = {}
    /\ quiet = "no"
    /\ backToBack = "no"
    /\ cp = NoCall
    /\ vp = NoVerify
    /\ lock = 0
    /\ inv = [p \in Procs |-> NotInvoked]
    /\ txn = NoTxn
    /\ snap = NoSnap

\* The steps of _run_scan, without the environment.
NextScan ==
    \/ \E vo \in BOOLEAN : BeginScan(vo)
    \/ \E hash_ok \in BOOLEAN, child \in Par2Results : Phase2Step(hash_ok, child)
    \/ Phase3Sample
    \/ \E vchild \in Par2Results, hash_ok \in BOOLEAN, child \in Par2Results :
           Phase3Step(vchild, hash_ok, child)
    \/ Phase4Begin
    \/ Phase4Step
    \/ Phase5
    \/ FinishScan

SpecCopies == InitCopies /\ [][NextScan]_vars

-----------------------------------------------------------------------------
(* Phase 3 of reconcile over any number of unchanged files and any        *)
(* VERIFY_PERCENT: the files are numbered, the manifest is left out.      *)

MaxUnchanged == 10

\* VERIFY_PERCENT as _int_env admits it.
VerifyPercents == 0..100

\* The elements of a set of numbers in a sequence.
RECURSIVE Listed(_)
Listed(S) ==
    IF S = {} THEN <<>>
    ELSE LET x == CHOOSE y \in S : \A z \in S : y <= z
         IN  <<x>> \o Listed(S \ {x})

\* random.sample(population, k): k distinct elements of the population.
random_sample(population, k) ==
    {Listed(S) : S \in {T \in SUBSET {population[i] : i \in DOMAIN population} :
                            Cardinality(T) = k}}

InitSample ==
    /\ universe = ContentsDistinct
    /\ \E percent \in VerifyPercents :
           cfg = [DefaultConfig EXCEPT !.verify_percent = percent]
    /\ disk = [p \in Paths |-> NoFile]
    /\ files = {}
    /\ nextId = 1
    /\ store = {}
    /\ pc = "phase2"
    /\ verify_only = FALSE
    /\ seen_on_disk = {}
    /\ needs_hash = <<>>
    /\ \E n \in 0..MaxUnchanged : unchanged = [i \in 1..n |-> i]
    /\ to_verify = <<>>
    /\ cursor = <<>>
    /\ stats = RunStats
    /\ calls = <<>>
    /\ log = None
    /\ runCount = 1
    /\ runs = {[id |-> 1, finished |-> FALSE]}
    /\ envSteps = 0
    /\ storeAtStart = {}
    /\ written = {}
    /\ quiet = "no"
    /\ backToBack = "no"
    /\ cp = NoCall
    /\ vp = NoVerify
    /\ lock = 0
    /\ inv = [p \in Procs |-> NotInvoked]
    /\ txn = NoTxn
    /\ snap = NoSnap

SampleFrame ==
    UNCHANGED <<disk, cfg, universe, files, nextId, store, verify_only,
                seen_on_disk, needs_hash, unchanged, cursor, calls, log,
                runCount, runs, envSteps, storeAtStart, written, quiet,
                backToBack, held>>

\* if unchanged: to_verify = unchanged, or a sample of it
SampleDraw ==
    /\ pc = "phase2"
    /\ unchanged # <<>>
    /\ IF cfg.verify_percent < 100
       THEN to_verify' \in random_sample(unchanged,
                               sample_size(Len(unchanged), cfg.verify_percent))
       ELSE to_verify' = unchanged
    /\ pc' = "phase3"
    /\ stats' = stats
    /\ SampleFrame

\* No unchanged file: phase 3 is skipped.
SampleSkip ==
    /\ pc = "phase2"
    /\ unchanged = <<>>
    /\ pc' = "phase4"
    /\ UNCHANGED <<to_verify, stats>>
    /\ SampleFrame

\* One turn of the loop: verify_parity is called, files_verified counts it.
SampleVerify ==
    /\ pc = "phase3"
    /\ to_verify # <<>>
    /\ stats' = [stats EXCEPT !.files_verified = @ + 1]
    /\ to_verify' = Tail(to_verify)
    /\ pc' = pc
    /\ SampleFrame

SampleDone ==
    /\ pc = "phase3"
    /\ to_verify = <<>>
    /\ pc' = "phase4"
    /\ UNCHANGED <<to_verify, stats>>
    /\ SampleFrame

NextSample == SampleDraw \/ SampleSkip \/ SampleVerify \/ SampleDone

SpecSample == InitSample /\ [][NextSample]_vars

-----------------------------------------------------------------------------
(* The par2 calls of parity.py under PAR2_TIMEOUT: the child would exit   *)
(* with a code after a time, and subprocess.run is given the timeout.     *)

MaxSeconds == 2

\* PAR2_TIMEOUT as _int_env admits it (min_val = 0).
Timeouts == 0..MaxSeconds

\* The time a child takes is positive.
Durations == 1..MaxSeconds

ExitCodes == {0, 1, 2}

\* _run_par2: subprocess.run(args, timeout = timeout) raises TimeoutExpired
\* when the child has not ended after timeout seconds, so at once for
\* timeout = 0, and else returns the child's exit code.
_run_par2(exit, seconds, timeout) ==
    IF seconds > timeout THEN TimedOut ELSE exit

\* What the last call of parity.py was given and what it returned.
Invocation(op, h, ran, exit, seconds, res) ==
    [op |-> op, content_hash |-> h, ran |-> ran,
     exit |-> IF ran THEN exit ELSE 0, seconds |-> IF ran THEN seconds ELSE 0,
     result |-> res]

InitTimeout ==
    /\ universe = ContentsDistinct
    /\ \E t \in Timeouts :
           cfg = [exclude_patterns |-> DefaultConfig.exclude_patterns,
                  max_file_size |-> DefaultConfig.max_file_size,
                  verify_percent |-> DefaultConfig.verify_percent,
                  par2_timeout |-> t]
    /\ disk = [p \in Paths |-> NoFile]
    /\ files = {}
    /\ nextId = 1
    /\ store \in {{}, Produced(H1)}
    /\ pc = "idle"
    /\ verify_only = FALSE
    /\ seen_on_disk = {}
    /\ needs_hash = <<>>
    /\ unchanged = <<>>
    /\ to_verify = <<>>
    /\ cursor = <<>>
    /\ stats = RunStats
    /\ calls = <<>>
    /\ log = None
    /\ runCount = 0
    /\ runs = {}
    /\ envSteps = 0
    /\ storeAtStart = {}
    /\ written = {}
    /\ quiet = "no"
    /\ backToBack = "no"
    /\ cp = NoCall
    /\ vp = NoVerify
    /\ lock = 0
    /\ inv = [p \in Procs |-> NotInvoked]
    /\ txn = NoTxn
    /\ snap = NoSnap

TimeoutFrame ==
    UNCHANGED <<disk, cfg, universe, files, nextId, pc, verify_only,
                seen_on_disk, needs_hash, unchanged, to_verify, cursor, stats,
                calls, runCount, runs, envSteps, storeAtStart, written, quiet,
                backToBack, held>>

\* create_parity, every move succeeding
RunCreate(h, exit, seconds) ==
    LET ran == par2_name_for_hash(h) \notin store
        r == create_parity_call(store, h,
                                _run_par2(exit, seconds, cfg.par2_timeout),
                                Produced(h))
    IN  /\ store' = r.store
        /\ log' = Invocation("create", h, ran, exit, seconds, r.result)
        /\ TimeoutFrame

\* verify_parity
RunVerify(h, exit, seconds) ==
    /\ log' = Invocation("verify", h, par2_name_for_hash(h) \in store, exit, seconds,
                         verify_parity(store, h,
                                       _run_par2(exit, seconds, cfg.par2_timeout)))
    /\ store' = store
    /\ TimeoutFrame

\* repair_file
RunRepair(h, exit, seconds) ==
    /\ log' = Invocation("repair", h, par2_name_for_hash(h) \in store, exit, seconds,
                         IF repair_file(store, h,
                                        _run_par2(exit, seconds, cfg.par2_timeout))
                         THEN "true" ELSE "false")
    /\ store' = store
    /\ TimeoutFrame

\* delete_parity
RunDelete(h) ==
    /\ \E f \in store : f[1] = par2_name_for_hash(h)[1]
    /\ store' = delete_parity(store, h)
    /\ log' = None
    /\ TimeoutFrame

NextTimeout ==
    \/ \E h \in Hashes, exit \in ExitCodes, seconds \in Durations :
           RunCreate(h, exit, seconds)
    \/ \E h \in Hashes, exit \in ExitCodes, seconds \in Durations :
           RunVerify(h, exit, seconds)
    \/ \E h \in Hashes, exit \in ExitCodes, seconds \in Durations :
           RunRepair(h, exit, seconds)
    \/ \E h \in Hashes : RunDelete(h)

SpecTimeout == InitTimeout /\ [][NextTimeout]_vars

-----------------------------------------------------------------------------
(* Two runs of reconcile over one data tree, each of which can be aborted *)
(* inside the transaction of phase 2 or of phase 3: the manifest goes     *)
(* back to what the transaction started from, the parity store does not.  *)

\* Two files of different content, each with its parity set.
TwoFiles ==
    {Row(1, ARCHIVE, <<NAME_A>>, 2, 1, H1, par2_name_for_hash(H1), "ok", 0),
     Row(2, PHOTOS, <<NAME_A>>, 2, 1, H2, par2_name_for_hash(H2), "ok", 0)}

\* What a path of a row can hold: nothing, the content of either row with
\* the old or a new mtime, or a file below the minimum size.
FilesNow ==
    {NoFile} \cup {[hash |-> H3, size |-> 1, mtime_ns |-> 1]}
             \cup {[hash |-> h, size |-> 2, mtime_ns |-> m] :
                   h \in {H1, H2}, m \in 1..MaxMtime}

InitAbort ==
    /\ universe = ContentsDistinct
    /\ cfg \in {c \in Configs : c.verify_percent = 100 /\ c.max_file_size = 0}
    /\ \E a, b \in FilesNow, t \in {NoFile, [hash |-> H1, size |-> 2, mtime_ns |-> 1]} :
           disk = [p \in Paths |-> IF p = P_ARCHIVE_A THEN a
                                   ELSE IF p = P_PHOTOS_A THEN b ELSE t]
    /\ files \in {TwoCopies, TwoFiles}
    /\ nextId = 3
    /\ store = UNION {Produced(r.content_hash) : r \in files}
    /\ pc = "idle"
    /\ verify_only = FALSE
    /\ seen_on_disk = {}
    /\ needs_hash = <<>>
    /\ unchanged = <<>>
    /\ to_verify = <<>>
    /\ cursor = <<>>
    /\ stats = RunStats
    /\ calls = <<>>
    /\ log = None
    /\ runCount = MaxRuns - 2
    /\ runs = {[id |-> i, finished |-> TRUE] : i \in 1..(MaxRuns - 2)}
    /\ envSteps = 0
    /\ storeAtStart = {}
    /\ written = {}
    /\ quiet = "no"
    /\ backToBack = "no"
    /\ cp = NoCall
    /\ vp = NoVerify
    /\ lock = 0
    /\ inv = [p \in Procs |-> NotInvoked]
    /\ txn = NoTxn
    /\ snap = NoSnap

\* The transaction of the phase the run is in is open.
InTransaction == snap.run = runCount /\ snap.phase = pc

\* with manifest.transaction(): at the start of phase 2, and of phase 3 when
\* there are files to verify.
TxnBegin ==
    /\ \/ pc = "phase2" /\ snap.run # runCount
       \/ pc = "phase3" /\ snap.run = runCount /\ snap.phase = "phase2"
                        /\ to_verify # <<>>
    /\ snap' = [run |-> runCount, phase |-> pc, files |-> files,
                nextId |-> nextId,
                recovering |-> IF pc = "phase2" THEN snap.phase = "aborted"
                               ELSE snap.recovering]
    /\ UNCHANGED <<disk, cfg, universe, files, nextId, store, pc, verify_only,
                   seen_on_disk, needs_hash, unchanged, to_verify, cursor,
                   stats, calls, log, runCount, runs, envSteps, storeAtStart,
                   written, quiet, backToBack, cp, vp, lock, inv, txn>>

\* An exception leaves the transaction (conn.rollback()) and the command:
\* the rows are those of the start of the transaction, the parity store is
\* as the steps so far left it, and the run is not finished.
Abort ==
    /\ pc \in {"phase2", "phase3"}
    /\ InTransaction
    /\ files' = snap.files
    /\ nextId' = snap.nextId
    /\ snap' = [NoSnap EXCEPT !.run = runCount, !.phase = "aborted"]
    /\ pc' = "idle"
    /\ verify_only' = FALSE
    /\ seen_on_disk' = {}
    /\ needs_hash' = <<>>
    /\ unchanged' = <<>>
    /\ to_verify' = <<>>
    /\ cursor' = <<>>
    /\ stats' = RunStats
    /\ calls' = <<>>
    /\ log' = None
    /\ storeAtStart' = {}
    /\ written' = {}
    /\ quiet' = "no"
    /\ backToBack' = "no"
    /\ UNCHANGED <<disk, cfg, universe, store, runCount, runs, envSteps, cp, vp,
                   lock, inv, txn>>

NextAbort ==
    \/ \E vo \in BOOLEAN : BeginScan(vo)
    \/ TxnBegin
    \/ InTransaction /\ \E hash_ok \in BOOLEAN, child \in Par2Results :
                            Phase2Step(hash_ok, child)
    \/ InTransaction /\ Phase3Sample
    \/ InTransaction /\ \E vchild \in Par2Results, hash_ok \in BOOLEAN,
                           child \in Par2Results :
                            Phase3Step(vchild, hash_ok, child)
    \/ Abort
    \/ Phase4Begin
    \/ Phase4Step
    \/ Phase5
    \/ FinishScan

SpecAbort == InitAbort /\ [][NextAbort]_vars

-----------------------------------------------------------------------------
(* The reconciler over contents two of whose hashes have the same first   *)
(* 16 hex characters, and so the same parity file names.                  *)

InitColliding == InitCommon /\ universe = ContentsColliding

SpecColliding == InitColliding /\ [][Next]_vars

-----------------------------------------------------------------------------
(* Properties *)

BaseFiles == {f \in store : IsBase(f)}

BaseOf(r) == par2_name_for_hash(r.content_hash)

\* reconcile(verify_only = false) has returned.
ScanCompleted == pc = "finish" /\ ~verify_only

Refs(fs, h) == Cardinality(get_files_by_hash(fs, h))

\* The last step called delete_parity for hash h.
DeleteCalled(cs, h) == \E i \in DOMAIN cs : cs[i].op = "delete" /\ cs[i].hash = h

CreateCalled(cs) == \E i \in DOMAIN cs : cs[i].op = "create"

Ids(fs) == {r.id : r \in fs}

\* C3: while a hash is referenced by two or more rows no step calls
\* delete_parity for it, and the step that removes its last reference (by
\* deletion, exclusion or modification) leaves no base file for it.
C3_SharedParityKeptUntilLastRef ==
    [][\A h \in Hashes :
          /\ Refs(files, h) >= 2 => ~DeleteCalled(calls', h)
          /\ (Refs(files, h) >= 1 /\ Refs(files', h) = 0)
                => par2_name_for_hash(h) \notin store']_vars

\* Phase 4 has just removed one of several rows of a hash: the parity is
\* still there and delete_parity was not called.
C3_Witness ==
    /\ pc = "phase4"
    /\ log # None /\ log.event = "Deleted"
    /\ calls = <<>>
    /\ stats.files_deleted = 1
    /\ \E r \in files : BaseOf(r) \in store /\ PathOf(r) \in seen_on_disk

\* The phase-2 step is about to handle a modified file: its path has a row
\* and the file's hash differs from the row's.
ModifyNext ==
    /\ pc = "phase2" /\ needs_hash # <<>> /\ ~verify_only
    /\ get_file(files, Head(needs_hash).data_root, Head(needs_hash).rel_path) # None
    /\ get_file(files, Head(needs_hash).data_root,
                Head(needs_hash).rel_path).content_hash
           # sha256_file(disk, Head(needs_hash))

\* C4: for a modified file, create_parity for the new hash comes first; when
\* it fails nothing else is called, the manifest and the store are as before,
\* files_created is unchanged and exactly one error is added; when it
\* succeeds a delete_parity call, if any, follows it and is for the old hash,
\* and the row takes the new hash and size.
C4_ModifyCreatesBeforeDelete ==
    [][(ModifyNext /\ CreateCalled(calls')) =>
          LET fi == Head(needs_hash)
              old == get_file(files, fi.data_root, fi.rel_path)
              new == get_file(files', fi.data_root, fi.rel_path)
              h == sha256_file(disk, fi)
          IN  /\ calls'[1].op = "create" /\ calls'[1].hash = h
              /\ IF calls'[1].result = "failed"
                 THEN /\ Len(calls') = 1
                      /\ files' = files
                      /\ store' = store
                      /\ stats'.files_created = stats.files_created
                      /\ Len(stats'.errors) = Len(stats.errors) + 1
                 ELSE /\ \A i \in 2..Len(calls') :
                             calls'[i].op = "delete"
                             /\ calls'[i].hash = old.content_hash
                      /\ new = [old EXCEPT !.content_hash = h, !.file_size = fi.size,
                                           !.mtime_ns = fi.mtime_ns,
                                           !.par2_name = par2_name_for_hash(h),
                                           !.status = "ok"]
                      /\ par2_name_for_hash(h) \in store'
                      /\ stats'.files_created = stats.files_created + 1
                      /\ stats'.errors = stats.errors]_vars

\* A modify whose create_parity failed: the old parity and the old hash are
\* still there.
C4_Witness ==
    /\ pc = "phase2"
    /\ log # None /\ log.event = "Modified"
    /\ calls # <<>> /\ calls[Len(calls)].result = "failed"
    /\ stats.errors = <<"parity create failed">>
    /\ \E r \in files : PathOf(r) = log.path /\ BaseOf(r) \in store
                        /\ r.content_hash # disk[log.path].hash

C6_VerifyOnlyReadOnly ==
    [][(verify_only /\ pc \in {"phase2", "phase3"}) =>
          /\ store' = store
          /\ \A i \in DOMAIN calls' : calls'[i].op = "verify"
          /\ Ids(files') = Ids(files)
          /\ \A r \in files : \A q \in files' :
                 q.id = r.id => q = [r EXCEPT !.status = q.status,
                                              !.verified_at = q.verified_at]]_vars

Phase3Next == pc = "phase3" /\ to_verify # <<>>

\* The step verifies the head of to_verify and the verifier reports damage.
DamagedReported(cs) == cs # <<>> /\ cs[1].op = "verify" /\ cs[1].result = "damaged"

\* C7 (as stated): when verify_parity returns damaged and the file's hash
\* equals the row's content_hash, the row keeps its status, is marked
\* verified and files_damaged is not incremented.
C7_DamagedWithSameHashIsOk ==
    [][(/\ Phase3Next
        /\ DamagedReported(calls')
        /\ sha256_file(disk, Head(to_verify).fi) = Head(to_verify).rec.content_hash)
       => LET id == Head(to_verify).rec.id
          IN  /\ RowById(files', id).status = RowById(files, id).status
              /\ RowById(files', id).verified_at = runCount
              /\ stats'.files_damaged = stats.files_damaged]_vars

\* C8: when verify_parity returns damaged and the file's hash differs from
\* the row's content_hash, only the row's status changes, to damaged,
\* files_damaged grows by one and the parity store is untouched.
C8_DamagedWithOtherHashIsMarked ==
    [][(/\ Phase3Next
        /\ DamagedReported(calls')
        /\ sha256_file(disk, Head(to_verify).fi) # Head(to_verify).rec.content_hash)
       => LET row == RowById(files, Head(to_verify).rec.id)
          IN  /\ files' = (files \ {row}) \cup {[row EXCEPT !.status = "damaged"]}
              /\ stats'.files_damaged = stats.files_damaged + 1
              /\ store' = store
              /\ Len(calls') = 1]_vars

\* A file changed behind an unchanged mtime and size has just been reported
\* damaged and marked.
C8_Witness ==
    /\ pc = "phase3"
    /\ log # None /\ log.event = "DAMAGED"
    /\ stats.files_damaged = 1
    /\ \E r \in files : /\ PathOf(r) = log.path
                        /\ r.status = "damaged"
                        /\ r.content_hash # disk[log.path].hash
                        /\ BaseOf(r) \in store

\* The phase-2 step is about to handle a path without a row whose hash is
\* that of a row whose path was not scanned.
MoveNext ==
    /\ pc = "phase2" /\ needs_hash # <<>>
    /\ get_file(files, Head(needs_hash).data_root, Head(needs_hash).rel_path) = None
    /\ \E r \in files : /\ r.content_hash = sha256_file(disk, Head(needs_hash))
                        /\ PathOf(r) \notin seen_on_disk

\* C9: a move re-points one row of the hash whose path was not scanned (same
\* id, new data_root, rel_path and mtime_ns), inserts and deletes no row,
\* makes no parity call and counts files_moved once and nothing else.
C9_MoveRepointsExistingRow ==
    [][(MoveNext /\ stats'.errors = stats.errors) =>
          LET fi == Head(needs_hash)
          IN  /\ \E r \in files :
                    /\ r.content_hash = sha256_file(disk, fi)
                    /\ PathOf(r) \notin seen_on_disk
                    /\ files' = (files \ {r}) \cup
                                {[r EXCEPT !.data_root = fi.data_root,
                                           !.rel_path = fi.rel_path,
                                           !.mtime_ns = fi.mtime_ns]}
              /\ nextId' = nextId
              /\ calls' = <<>>
              /\ store' = store
              /\ stats' = [stats EXCEPT !.files_moved = @ + 1]]_vars

\* A row has just been re-pointed to another data root.
C9_Witness ==
    /\ pc = "phase2"
    /\ log # None /\ log.event = "Moved"
    /\ stats.files_moved = 1 /\ stats.files_created = 0
    /\ nextId = 2
    /\ \E r \in files : r.id = 1 /\ PathOf(r) = log.path
                        /\ r.data_root = PHOTOS /\ disk[P_ARCHIVE_A] = NoFile

\* Phase 4 is about to handle a row whose path was not scanned while its
\* file exists, is not excluded and does not exceed a non-zero maximum.
TruncatedNext ==
    /\ pc = "phase4" /\ cursor # <<>>
    /\ LET rec == RowById(files, Head(cursor))
       IN  /\ PathOf(rec) \notin seen_on_disk
           /\ disk[PathOf(rec)] # NoFile
           /\ ~should_exclude(rec.data_root, cfg.exclude_patterns)
           /\ \A i \in 1..Len(rec.rel_path) :
                  ~should_exclude(rec.rel_path[i], cfg.exclude_patterns)
           /\ ~(cfg.max_file_size # 0 /\ disk[PathOf(rec)].size > cfg.max_file_size)

\* C10: such a row is kept with status truncated, files_truncated grows by
\* one, files_deleted does not, and delete_parity is not called.
C10_TruncatedRowKept ==
    [][TruncatedNext =>
          LET rec == RowById(files, Head(cursor))
          IN  /\ files' = (files \ {rec}) \cup {[rec EXCEPT !.status = "truncated"]}
              /\ stats' = [stats EXCEPT !.files_truncated = @ + 1]
              /\ calls' = <<>>
              /\ store' = store]_vars

\* A tracked file cut below the minimum size has just been marked, with no
\* maximum size configured.
C10_Witness ==
    /\ pc = "phase4"
    /\ log # None /\ log.event = "Truncated"
    /\ cfg.max_file_size = 0
    /\ stats.files_truncated = 1 /\ stats.files_deleted = 0
    /\ \E r \in files : /\ PathOf(r) = log.path
                        /\ r.status = "truncated"
                        /\ BaseOf(r) \in store
                        /\ disk[log.path].size < MinFileSize

\* Phase 4 is about to handle a row whose path was not scanned.
UnscannedNext ==
    /\ pc = "phase4" /\ cursor # <<>>
    /\ PathOf(RowById(files, Head(cursor))) \notin seen_on_disk

\* The file of the row is gone, or is there and excluded by the root label
\* or a component of rel_path, or is there and larger than a non-zero
\* max_file_size.
MustRemove(rec) ==
    \/ disk[PathOf(rec)] = NoFile
    \/ should_exclude(rec.data_root, cfg.exclude_patterns)
    \/ \E i \in 1..Len(rec.rel_path) :
           should_exclude(rec.rel_path[i], cfg.exclude_patterns)
    \/ cfg.max_file_size # 0 /\ disk[PathOf(rec)].size > cfg.max_file_size

\* C11: in phase 4 a row whose path was not scanned is removed exactly when
\* its file is gone, excluded or too large; the removal deletes the parity
\* only if no other row holds the hash, counts once under files_deleted and
\* not under files_truncated; otherwise the row stays.
C11_UnscannedRowRemovedIffGoneOrExcluded ==
    [][UnscannedNext =>
          LET rec == RowById(files, Head(cursor))
          IN  IF MustRemove(rec)
              THEN /\ files' = files \ {rec}
                   /\ stats' = [stats EXCEPT !.files_deleted = @ + 1]
                   /\ calls' = IF Refs(files, rec.content_hash) <= 1
                               THEN <<Call("delete", rec.content_hash, "done")>>
                               ELSE <<>>
                   /\ (Refs(files, rec.content_hash) > 1 => store' = store)
              ELSE /\ rec.id \in Ids(files')
                   /\ stats'.files_deleted = stats.files_deleted
                   /\ calls' = <<>>]_vars

\* A row under an excluded root label whose file is still on disk has just
\* been removed with its parity.
C11_Witness ==
    /\ pc = "phase4"
    /\ log # None /\ log.event = "Excluded"
    /\ disk[log.path] # NoFile
    /\ should_exclude(log.path.data_root, cfg.exclude_patterns)
    /\ stats.files_deleted = 1 /\ stats.files_truncated = 0
    /\ files = {}
    /\ calls # <<>> /\ calls[1].op = "delete"

\* Phase 4 has handled every row: the next step is the phase-5 sweep.
SweepNext == pc = "phase4" /\ cursor = <<>>

\* The base files of the store that no row names.
OrphanBases == {f \in BaseFiles : \A r \in files : r.par2_name # f}

\* C12: the sweep removes the orphan base files with their volume files and
\* nothing else, counts orphan_parity_cleaned once per orphan base file and
\* leaves the manifest alone; a base file named by a row, also one written
\* earlier in the run, stays.
C12_SweepRemovesExactlyOrphans ==
    [][SweepNext =>
          /\ store' = {f \in store : \A o \in OrphanBases : f[1] # o[1]}
          /\ stats' = [stats EXCEPT !.orphan_parity_cleaned =
                                        @ + Cardinality(OrphanBases)]
          /\ Len(calls') = Cardinality(OrphanBases)
          /\ files' = files]_vars

\* The sweep has removed an orphan with its volume file and kept the parity
\* of a row inserted in the same run.
C12_Witness ==
    /\ pc = "finish"
    /\ stats.orphan_parity_cleaned = 1
    /\ calls # <<>> /\ calls[1].op = "delete"
    /\ vol_name_for_hash(calls[1].hash) \in storeAtStart \ store
    /\ \E r \in files : r.id \in written /\ BaseOf(r) \in store
                        /\ vol_name_for_hash(r.content_hash) \in store

\* C13 (as stated): every call of create_parity leaves no temporary
\* directory, and a call that does not succeed returns failure and leaves
\* no base or volume file of the hash in the final directory.
C13_CreateIsCrashSafe ==
    [][cp' # cp =>
          /\ cp'.tmp = {}
          /\ cp'.result # "true" =>
                 /\ cp'.result = "false"
                 /\ \A f \in store' : f[1] # par2_name_for_hash(cp'.content_hash)[1]]_vars

Running == {p \in Procs : inv[p].at = "running"}

\* C14: at most one invocation runs a command and it holds the lock; an
\* invocation that finds the lock held exits 0 without opening the manifest
\* and without touching the manifest, the run counter or the parity store;
\* the invocation that holds the lock releases it when its command returns
\* or raises.
C14_OneRunAtATime ==
    [][/\ Cardinality({p \in Procs : inv'[p].at = "running"}) <= 1
       /\ \A p \in Procs :
            /\ inv'[p].at = "running" => lock' = p
            /\ (inv[p].at = "flock" /\ inv'[p] # inv[p] /\ lock # 0) =>
                   /\ inv'[p] = [at |-> "exited", exit |-> "0", opened |-> FALSE]
                   /\ lock' = lock
                   /\ files' = files /\ runCount' = runCount /\ store' = store
            /\ (inv[p].at = "running" /\ inv'[p].at = "exited") => lock' = 0]_vars

\* An invocation was turned away while another ran, that one ended with an
\* exception, and a third now holds the lock.
C14_Witness ==
    \E p, q, r \in Procs :
        /\ inv[p].at = "exited" /\ inv[p].exit = "raised"
        /\ inv[q].at = "exited" /\ inv[q].exit = "0" /\ ~inv[q].opened
        /\ inv[r].at = "running" /\ lock = r

Flagged == {r \in files : r.status \in {"damaged", "truncated"}}

\* C15 (as stated): scan exits 1 exactly when some row ends the run with
\* status damaged or truncated, also one marked by an earlier run or not
\* sampled in this run.
C15_ExitOneIffFlaggedRow ==
    ScanCompleted => (_run_scan(stats, verify_only) = 1 <=> Flagged # {})

\* C15 (amended): scan exits 1 only if some row ends the run with status
\* damaged or truncated, and it does so whenever a row is truncated with its
\* path outside the scanned set (phase 4 has just marked it), whatever
\* errors holds; when every row ends the run ok it exits 0.
C15_ExitOneOnlyIfFlaggedRow ==
    ScanCompleted =>
        /\ _run_scan(stats, verify_only) \in {0, 1}
        /\ _run_scan(stats, verify_only) = 1 => Flagged # {}
        /\ (\E r \in files : r.status = "truncated" /\ PathOf(r) \notin seen_on_disk)
               => _run_scan(stats, verify_only) = 1

\* A scan without error that exits 1 for a truncated file while no damage
\* was found.
C15_Witness ==
    /\ ScanCompleted
    /\ _run_scan(stats, verify_only) = 1
    /\ stats.errors = <<>>
    /\ stats.files_damaged = 0
    /\ \E r \in files : r.status = "truncated" /\ PathOf(r) \notin seen_on_disk

\* cmd_repair is about to handle a record.
RepairNext == pc = "repair" /\ cursor # <<>>

RepairRec == RowById(files, Head(cursor))

\* The step has appended the given error.
Appended(msg) ==
    /\ Len(stats'.errors) = Len(stats.errors) + 1
    /\ stats'.errors[Len(stats'.errors)] = msg

\* The record's file is there and hashes to the record's content_hash.
IntactNext ==
    /\ RepairNext
    /\ disk[PathOf(RepairRec)] # NoFile
    /\ disk[PathOf(RepairRec)].hash = RepairRec.content_hash

\* The record's file is there and hashes to something else.
DifferentNext ==
    /\ RepairNext
    /\ disk[PathOf(RepairRec)] # NoFile
    /\ disk[PathOf(RepairRec)].hash # RepairRec.content_hash

RepairCalled(cs) == \E i \in DOMAIN cs : cs[i].op = "repair"

\* C16: in repair, for a record whose file hashes to its content_hash,
\* repair_file is not called, delete_parity is called iff no other row holds
\* the hash, create_parity is called last, and the row becomes ok and
\* verified exactly when create_parity succeeds; else it stays as it was
\* and one error is added.
C16_IntactFileGetsNewParity ==
    [][(IntactNext /\ ~Appended("hash error")) =>
          LET rec == RepairRec
              h == rec.content_hash
              last == calls'[Len(calls')]
          IN  /\ ~RepairCalled(calls')
              /\ DeleteCalled(calls', h) <=> Refs(files, h) <= 1
              /\ Len(calls') = IF Refs(files, h) <= 1 THEN 2 ELSE 1
              /\ last.op = "create" /\ last.hash = h
              /\ IF last.result # "failed"
                 THEN /\ files' = (files \ {rec}) \cup
                                  {[rec EXCEPT !.status = "ok",
                                               !.verified_at = runCount]}
                      /\ par2_name_for_hash(h) \in store'
                      /\ stats' = stats
                 ELSE /\ files' = files
                      /\ Appended("parity re-create failed")]_vars

\* The parity of an intact damaged file, held by that row alone, has been
\* deleted and made again, and the row is ok.
C16_Witness ==
    /\ pc = "repair"
    /\ log # None /\ log.event = "Re-created parity"
    /\ Len(calls) = 2 /\ calls[1].op = "delete" /\ calls[2].result = "created"
    /\ \E r \in files : /\ PathOf(r) = log.path
                        /\ r.status = "ok" /\ r.verified_at = runCount
                        /\ BaseOf(r) \in store

\* C17: in repair, for a record whose file hashes to something else and
\* whose repair_file succeeds, files_repaired grows by one and verify_parity
\* is called next; the row becomes ok and verified if it returns ok and
\* damaged for every other result, and in no case repaired.
C17_RepairedFileIsVerifiedAgain ==
    [][(/\ DifferentNext
        /\ calls' # <<>> /\ calls'[1].op = "repair" /\ calls'[1].result = "true") =>
          LET rec == RepairRec
          IN  /\ stats'.files_repaired = stats.files_repaired + 1
              /\ Len(calls') = 2 /\ calls'[2].op = "verify"
              /\ calls'[2].hash = rec.content_hash
              /\ files' = (files \ {rec}) \cup
                          {IF calls'[2].result = "ok"
                           THEN [rec EXCEPT !.status = "ok", !.verified_at = runCount]
                           ELSE [rec EXCEPT !.status = "damaged"]}]_vars

\* A file has been repaired, the verify that followed returned error, and
\* the row is damaged.
C17_Witness ==
    /\ pc = "repair"
    /\ log # None /\ log.event = "Post-repair verify failed"
    /\ stats.files_repaired = 1
    /\ Len(calls) = 2 /\ calls[2].op = "verify" /\ calls[2].result = "error"
    /\ \E r \in files : PathOf(r) = log.path /\ r.status = "damaged"
                        /\ disk[log.path].hash = r.content_hash

\* C18 (as stated): every record that repair leaves other than ok, also
\* after a post-repair verify that did not return ok, adds an error, so
\* that the run exits non-zero.
C18_EveryRepairFailureIsAnError ==
    [][RepairNext =>
          (RowById(files', Head(cursor)).status # "ok"
               => /\ Len(stats'.errors) = Len(stats.errors) + 1
                  /\ cmd_repair(stats') = 1)]_vars

\* C19: repair visits exactly the rows that are damaged or repaired when it
\* starts, in one run that it opens and finishes; without such a row it
\* returns 0 and the table of runs is as before; a step changes no row but
\* the one it visits, which is damaged or repaired, so every ok or
\* truncated row stays as it is.
C19_RepairVisitsDamagedAndRepairedOnly ==
    [][/\ (pc = "idle" /\ pc' # "idle") =>
            LET todo == {r \in files : r.status \in {"damaged", "repaired"}}
            IN  /\ {cursor'[i] : i \in DOMAIN cursor'} = {r.id : r \in todo}
                /\ Len(cursor') = Cardinality(todo)
                /\ files' = files
                /\ IF todo = {}
                   THEN pc' = "returned" /\ runs' = runs /\ cmd_repair(stats') = 0
                   ELSE /\ pc' = "repair"
                        /\ runs' = runs \cup {[id |-> Cardinality(runs) + 1,
                                               finished |-> FALSE]}
       /\ RepairNext =>
            /\ RepairRec.status \in {"damaged", "repaired"}
            /\ \A r \in files : r.id # Head(cursor) => r \in files'
            /\ Ids(files') = Ids(files)
            /\ runs' = runs
       /\ (pc = "repair" /\ pc' = "returned") =>
            /\ cursor = <<>>
            /\ \A r \in runs' : r.finished
            /\ Cardinality(runs') = Cardinality(runs)
            /\ files' = files]_vars

\* Repair has returned after one run over a manifest that held a repaired
\* row, now ok, next to a truncated row it left alone.
C19_Witness ==
    /\ pc = "returned"
    /\ Cardinality(runs) = 2 /\ \A r \in runs : r.finished
    /\ \E r \in files : r.status = "ok" /\ r.verified_at = runCount
    /\ \E r \in files : r.status = "truncated" /\ r.verified_at = 0
    /\ stats.files_repaired = 1

\* C20: when the body of an outermost transaction fails, rows and id counter
\* are again what they were when it was entered, whatever was written in it
\* and in scopes nested in it; a write outside any transaction is committed
\* by the step that makes it, so that a rollback never undoes it.
C20_FailureRollsBackToEntry ==
    [][/\ (txn.scopes # <<>> /\ txn'.scopes = <<>> /\ txn'.ended = "rollback")
             => /\ Snapshot(files', nextId') = txn.entry
                /\ txn'.committed = txn.entry
       /\ (~txn.in_transaction /\ ~txn'.in_transaction)
             => txn'.committed = Snapshot(files', nextId')
       /\ txn'.in_transaction => txn'.committed = txn'.entry]_vars

\* A transaction with a nested scope has just failed after writes in both:
\* the row written before it is there, the rows written in it are not.
C20_Witness ==
    /\ txn.ended = "rollback" /\ txn.scopes = <<>>
    /\ txn.wrote = {"outer", "inner"}
    /\ txn.entry = Snapshot(files, nextId)
    /\ txn.committed = txn.entry
    /\ Cardinality(files) = 1
    /\ \E r \in files : r.status = "damaged"
    /\ nextId = 2

-----------------------------------------------------------------------------
\* A step enters, or leaves, a scope nested in an open transaction.
NestedEnter == txn.scopes # <<>> /\ Len(txn'.scopes) = Len(txn.scopes) + 1

NestedLeave == txn'.scopes # <<>> /\ Len(txn'.scopes) < Len(txn.scopes)

\* C21: entering transaction() inside an open transaction and leaving the
\* nested scope change neither the rows nor what is committed, and the
\* manifest stays in transaction mode; inside a transaction what is committed
\* changes only in the step in which the outermost scope ends normally, and
\* becomes the rows of that moment; once no scope is open the manifest is out
\* of transaction mode and every write is committed by the step that makes it.
C21_NestedScopesDeferToOutermost ==
    [][/\ (NestedEnter \/ NestedLeave)
             => /\ txn'.committed = txn.committed
                /\ files' = files /\ nextId' = nextId
                /\ txn'.in_transaction
       /\ (txn.in_transaction /\ txn'.committed # txn.committed)
             => /\ txn.scopes = <<"outer">> /\ txn'.scopes = <<>>
                /\ txn'.ended = "commit"
                /\ txn'.committed = Snapshot(files, nextId)
       /\ (txn'.scopes = <<>>) => ~txn'.in_transaction
       /\ (txn.scopes = <<>> /\ txn'.scopes = <<>>)
             => txn'.committed = Snapshot(files', nextId')]_vars

\* A nested scope has been left after a write made in it, the outermost scope
\* is still open, and nothing of the transaction has been committed.
C21_Witness ==
    /\ txn.scopes = <<"outer">>
    /\ "inner" \in txn.wrote
    /\ txn.committed = txn.entry
    /\ Snapshot(files, nextId) # txn.committed

-----------------------------------------------------------------------------
\* The step handles a file of phase 2 or 3 and fails on it: the file cannot
\* be hashed where its hash is needed, par2 create exits with an error or is
\* timed out, or the verifier ends with an error.
CreateFailed(cs) == \E i \in 1..Len(cs) : cs[i].op = "create" /\ cs[i].result = "failed"

VerifyError(cs) == \E i \in 1..Len(cs) : cs[i].op = "verify" /\ cs[i].result = "error"

HashFails ==
    \/ \E child \in Par2Results : Phase2Step(FALSE, child)
    \/ /\ pc = "phase3" /\ to_verify # <<>> /\ ~verify_only
       /\ par2_name_for_hash(Head(to_verify).rec.content_hash) \notin store
       /\ \E vchild, child \in Par2Results : Phase3Step(vchild, FALSE, child)

FileFails ==
    /\ \/ pc = "phase2" /\ needs_hash # <<>> /\ needs_hash' = Tail(needs_hash)
       \/ pc = "phase3" /\ to_verify # <<>> /\ to_verify' = Tail(to_verify)
    /\ HashFails \/ CreateFailed(calls') \/ VerifyError(calls')

-----------------------------------------------------------------------------
\* The phase-2 step is about to handle a path whose row has the hash the
\* file has now: the file differs from its row by mtime (or size) only.
TouchNext ==
    /\ pc = "phase2" /\ needs_hash # <<>>
    /\ get_file(files, Head(needs_hash).data_root, Head(needs_hash).rel_path) # None
    /\ get_file(files, Head(needs_hash).data_root,
                Head(needs_hash).rel_path).content_hash
           = sha256_file(disk, Head(needs_hash))

\* C23: a touch changes mtime_ns of the file's row and nothing else in the
\* manifest (content_hash, par2_name, file_size, status and id stay), makes
\* no call of the parity store, leaves the store as it is and changes no
\* counter; files_created in particular stays what it was.
C23_TouchUpdatesMtimeOnly ==
    [][(TouchNext /\ stats'.errors = stats.errors) =>
          LET fi == Head(needs_hash)
              old == get_file(files, fi.data_root, fi.rel_path)
          IN  /\ files' = (files \ {old}) \cup {[old EXCEPT !.mtime_ns = fi.mtime_ns]}
              /\ nextId' = nextId
              /\ calls' = <<>>
              /\ store' = store
              /\ stats' = stats]_vars

\* A file whose row is damaged has just been touched: the row has the new
\* mtime, is still damaged, and the run has created nothing.
C23_Witness ==
    /\ pc = "phase2"
    /\ log # None /\ log.event = "Touched"
    /\ calls = <<>>
    /\ stats.files_created = 0
    /\ \E r \in files : /\ PathOf(r) = log.path
                        /\ r.mtime_ns = disk[log.path].mtime_ns
                        /\ r.mtime_ns = 2
                        /\ r.content_hash = disk[log.path].hash
                        /\ r.status = "damaged"

-----------------------------------------------------------------------------
\* The phase-2 step of a run that is not verify_only is about to handle a
\* path without a row whose hash is that of no row with an unscanned path.
NewNext ==
    /\ pc = "phase2" /\ needs_hash # <<>> /\ ~verify_only
    /\ get_file(files, Head(needs_hash).data_root, Head(needs_hash).rel_path) = None
    /\ ~\E r \in files : /\ r.content_hash = sha256_file(disk, Head(needs_hash))
                         /\ PathOf(r) \notin seen_on_disk

\* C24: for a new file whose hash could be computed create_parity is called;
\* when it succeeds one row is inserted (next id, the file's path, size and
\* mtime, its hash, the par2 name of the hash, status ok, never verified),
\* files_created grows by one and no error is added; when it fails the
\* manifest is unchanged, files_created too, and one error is added.  In no
\* step does a row appear whose base parity file is not in the store.
C24_NewRowOnlyWithParity ==
    [][/\ (NewNext /\ ~\E child \in Par2Results : Phase2Step(FALSE, child))
             => CreateCalled(calls')
       /\ (NewNext /\ CreateCalled(calls')) =>
             LET fi == Head(needs_hash)
                 h == sha256_file(disk, fi)
             IN  IF calls'[1].result = "failed"
                 THEN /\ files' = files /\ nextId' = nextId
                      /\ store' = store
                      /\ stats'.files_created = stats.files_created
                      /\ Len(stats'.errors) = Len(stats.errors) + 1
                 ELSE /\ files' = files \cup
                                   {Row(nextId, fi.data_root, fi.rel_path, fi.size,
                                        fi.mtime_ns, h, par2_name_for_hash(h), "ok", 0)}
                      /\ nextId' = nextId + 1
                      /\ par2_name_for_hash(h) \in store'
                      /\ stats'.files_created = stats.files_created + 1
                      /\ stats'.errors = stats.errors
       /\ \A r \in files' : r.id \notin Ids(files) =>
             /\ r.par2_name \in store'
             /\ r.par2_name = par2_name_for_hash(r.content_hash)
             /\ r.status = "ok"]_vars

\* A new file has just been given parity by the encoder and then its row.
C24_Witness ==
    /\ pc = "phase2" /\ ~verify_only
    /\ log # None /\ log.event = "New"
    /\ calls = <<Call("create", disk[log.path].hash, "created")>>
    /\ stats.files_created = 1 /\ stats.errors = <<>>
    /\ \E r \in files : /\ PathOf(r) = log.path
                        /\ r.id = nextId - 1
                        /\ r.status = "ok"
                        /\ r.par2_name \in store

-----------------------------------------------------------------------------
\* The phase-3 step of a run that is not verify_only is about to verify a
\* file whose row names a base parity file that is not in the store.
MissingNext ==
    /\ Phase3Next /\ ~verify_only
    /\ par2_name_for_hash(Head(to_verify).rec.content_hash) \notin store

\* C25: missing-parity recovery whose hash could be computed calls
\* create_parity for the file's present hash right after the verify.  When
\* the create fails rows and store are unchanged and one error is added.
\* When it succeeds parity_recreated grows by one and no error is added; if
\* the hash is the row's, the row is marked verified and nothing else
\* changes; if it differs, delete_parity for the old hash follows the create
\* exactly when no other row has the old hash, and the row (same id) takes
\* the new hash, its par2 name, the file's size and mtime and status ok.
\* files_damaged does not change in any of these cases.
C25_MissingParityIsRecreated ==
    [][(MissingNext /\ CreateCalled(calls')) =>
          LET fi == Head(to_verify).fi
              rec == Head(to_verify).rec
              row == RowById(files, rec.id)
              h == sha256_file(disk, fi)
          IN  /\ calls'[1] = Call("verify", rec.content_hash, "missing_parity")
              /\ calls'[2].op = "create" /\ calls'[2].hash = h
              /\ stats'.files_damaged = stats.files_damaged
              /\ stats'.files_verified = stats.files_verified + 1
              /\ IF calls'[2].result = "failed"
                 THEN /\ files' = files /\ nextId' = nextId /\ store' = store
                      /\ Len(calls') = 2
                      /\ stats'.parity_recreated = stats.parity_recreated
                      /\ Len(stats'.errors) = Len(stats.errors) + 1
                 ELSE /\ stats'.parity_recreated = stats.parity_recreated + 1
                      /\ stats'.errors = stats.errors
                      /\ par2_name_for_hash(h) \in store'
                      /\ nextId' = nextId
                      /\ IF h = rec.content_hash
                         THEN /\ files' = (files \ {row}) \cup
                                          {[row EXCEPT !.verified_at = runCount]}
                              /\ Len(calls') = 2
                         ELSE /\ files' = (files \ {row}) \cup
                                    {[row EXCEPT !.content_hash = h,
                                                 !.par2_name = par2_name_for_hash(h),
                                                 !.file_size = fi.size,
                                                 !.mtime_ns = fi.mtime_ns,
                                                 !.status = "ok"]}
                              /\ \A i \in 3..Len(calls') :
                                     calls'[i] = Call("delete", rec.content_hash, "done")
                              /\ (Len(calls') = 3) <=> (Refs(files, rec.content_hash) <= 1)]_vars

\* The content of a file changed behind an unchanged mtime and size and the
\* parity of its row was lost: the row has the new hash, parity for it is in
\* the store, and no damage is counted.
C25_Witness ==
    /\ pc = "phase3" /\ ~verify_only
    /\ log # None /\ log.event = "Sneaky modification"
    /\ stats.parity_recreated = 1 /\ stats.files_damaged = 0
    /\ stats.errors = <<>>
    /\ Len(calls) = 3 /\ calls[2].result = "created" /\ calls[3].op = "delete"
    /\ \E r \in files : /\ PathOf(r) = log.path
                        /\ r.content_hash = disk[log.path].hash
                        /\ r.content_hash # calls[1].hash
                        /\ r.par2_name \in store

-----------------------------------------------------------------------------
\* C26: verify_parity returns missing_parity exactly when the base file of
\* the hash is not in the store, and then the verifier is not run;
\* otherwise ok for exit code 0, damaged for exit code 1 and error for any
\* other exit code and for a timeout; the store is the same after the call.
C26_VerifyMapsExitCodes ==
    [][vp' # vp =>
          LET present == par2_name_for_hash(vp'.content_hash) \in store
          IN  /\ store' = store
              /\ (vp'.result = "missing_parity") <=> ~present
              /\ vp'.ran <=> present
              /\ present =>
                    /\ (vp'.result = "ok") <=> (vp'.child = 0)
                    /\ (vp'.result = "damaged") <=> (vp'.child = 1)
                    /\ (vp'.result = "error") <=> (vp'.child \notin {0, 1})]_vars

\* A verify of a hash whose parity is in the store has timed out and
\* returned error.
C26_Witness ==
    /\ vp.result = "error" /\ vp.child = TimedOut
    /\ par2_name_for_hash(vp.content_hash) \in store
    /\ vol_name_for_hash(vp.content_hash) \in store

-----------------------------------------------------------------------------
\* The step is a call of create_parity, for the hash cp'.content_hash: of the
\* calls of the parity module verify_parity sets vp and delete_parity
\* removes a file.
CreateStep == vp' = vp /\ store \subseteq store'

\* C27: a call of create_parity for a hash whose base file is in the store
\* returns success and leaves every file of the store as it was, whatever
\* the encoder and the moves would have done.
C27_CreateOnExistingBaseIsNoOp ==
    [][(CreateStep /\ par2_name_for_hash(cp'.content_hash) \in store)
          => /\ cp'.result = "true"
             /\ cp'.tmp = {}
             /\ store' = store]_vars

\* create_parity has returned success for a hash whose base file was there
\* without its volume file, and the volume file is still not there: the
\* encoder was not run.
C27_Witness ==
    /\ cp.result = "true"
    /\ par2_name_for_hash(cp.content_hash) \in store
    /\ vol_name_for_hash(cp.content_hash) \notin store

-----------------------------------------------------------------------------
\* C28 (as stated): the scanner emits no file of a top-level directory whose
\* name matches an exclude pattern: no scanned path of a run has such a
\* data_root label.
C28_ScannerSkipsExcludedRoots ==
    \A p \in seen_on_disk : ~should_exclude(p.data_root, cfg.exclude_patterns)

-----------------------------------------------------------------------------
\* The rows of table runs without finished_at.
OpenRuns == {r \in runs : ~r.finished}

\* C29 (as stated): at any time at most one run is open, whatever commands
\* are invoked and however they end.
C29_AtMostOneOpenRun == Cardinality(OpenRuns) <= 1

-----------------------------------------------------------------------------
\* The file a step of phase 2 or 3 is about to handle.
FileNext == IF pc = "phase2" THEN Head(needs_hash) ELSE Head(to_verify).fi

\* The last step called create_parity and it returned success.
CreateSucceeded(cs) ==
    \E i \in 1..Len(cs) : cs[i].op = "create" /\ cs[i].result # "failed"

\* C30: a step after which the id of a row is no longer in the manifest is a
\* step of the phase-4 loop of a run that is not verify_only; and when a
\* modify or a sneaky modify has created the new parity, the row of the path
\* has the id it had and the hash of the file.
C30_RowsRemovedOnlyInPhase4 ==
    [][/\ (Ids(files) \ Ids(files') # {})
             => (pc = "phase4" /\ pc' = "phase4" /\ ~verify_only)
       /\ ((ModifyNext \/ MissingNext) /\ CreateSucceeded(calls'))
             => LET fi == FileNext
                    old == get_file(files, fi.data_root, fi.rel_path)
                    new == get_file(files', fi.data_root, fi.rel_path)
                IN  /\ new # None
                    /\ new.id = old.id
                    /\ new.content_hash = sha256_file(disk, fi)
                    /\ Ids(files') = Ids(files)]_vars

\* The third run removes, in phase 4, the row of a file that is gone; it is
\* the only row the manifest ever had.
C30_Witness ==
    /\ pc = "phase4" /\ ~verify_only /\ runCount = 3
    /\ log # None /\ log.event = "Deleted"
    /\ disk[log.path] = NoFile
    /\ files = {} /\ nextId = 2
    /\ stats.files_deleted = 1

-----------------------------------------------------------------------------
\* The rows a move of the file the phase-2 step is about to handle can take:
\* those of its hash whose path was not scanned.
Candidates ==
    {r \in files : /\ r.content_hash = sha256_file(disk, Head(needs_hash))
                   /\ PathOf(r) \notin seen_on_disk}

\* The move re-points a candidate of the new file's data root if there is
\* one, and else any candidate.
MovePrefersSameRoot ==
    (MoveNext /\ stats'.errors = stats.errors) =>
        LET fi == Head(needs_hash)
            same == {r \in Candidates : r.data_root = fi.data_root}
        IN  \E r \in (IF same # {} THEN same ELSE Candidates) :
               files' = (files \ {r}) \cup
                        {[r EXCEPT !.data_root = fi.data_root,
                                   !.rel_path = fi.rel_path,
                                   !.mtime_ns = fi.mtime_ns]}

\* C31 (as stated): a move prefers a candidate of the same data root, and
\* when a run with phase 4 that made a move has done its work no row of a
\* path that was not scanned is left, while the parity of the rows is still
\* in the store.
C31_MoveThenRestRemoved ==
    [][/\ MovePrefersSameRoot
       /\ (pc' = "finish" /\ ~verify_only' /\ stats'.files_moved > 0)
             => \A r \in files' : /\ PathOf(r) \in seen_on_disk'
                                  /\ BaseOf(r) \in store']_vars

\* C31 (amended): a move prefers a candidate of the same data root; in
\* phase 4 of a run that is not verify_only a row whose path was not scanned
\* and whose hash another row has is removed if its file is gone, excluded
\* or too large, and is else kept with status truncated, and in both cases
\* no parity file is deleted.
C31_MoveThenRestHandledInPhase4 ==
    [][/\ MovePrefersSameRoot
       /\ (UnscannedNext /\ Refs(files, RowById(files, Head(cursor)).content_hash) > 1)
             => LET rec == RowById(files, Head(cursor))
                IN  /\ store' = store /\ calls' = <<>>
                    /\ files' = IF MustRemove(rec) THEN files \ {rec}
                                ELSE (files \ {rec}) \cup
                                     {[rec EXCEPT !.status = "truncated"]}]_vars

\* Both copies were gone and a file of their content had appeared in the
\* data root of the second: the second row was re-pointed to it, the first
\* has just been removed in phase 4, and the parity is still there.
C31_Witness ==
    /\ pc = "phase4" /\ stats.files_moved = 1 /\ stats.files_deleted = 1
    /\ log # None /\ log.event = "Deleted" /\ log.path = P_ARCHIVE_A
    /\ files = {[id |-> 2, data_root |-> PHOTOS, rel_path |-> <<NAME_TMP>>,
                 file_size |-> 2, mtime_ns |-> 1, content_hash |-> H1,
                 par2_name |-> par2_name_for_hash(H1), status |-> "ok",
                 verified_at |-> 0]}
    /\ par2_name_for_hash(H1) \in store

-----------------------------------------------------------------------------
\* The number of verify calls phase 3 makes over n unchanged files.
VerifyCalls(n, percent) ==
    IF n = 0 THEN 0
    ELSE IF percent >= 100 THEN n
    ELSE IF (n * percent) \div 100 >= 1 THEN (n * percent) \div 100 ELSE 1

\* The files still to verify are distinct unchanged files, and with those
\* already verified they are as many as VerifyCalls says.
SampleIsExact ==
    pc \in {"phase3", "phase4"} =>
        /\ stats.files_verified + Len(to_verify)
              = VerifyCalls(Len(unchanged), cfg.verify_percent)
        /\ \A i, j \in DOMAIN to_verify : i # j => to_verify[i] # to_verify[j]
        /\ \A i \in DOMAIN to_verify : to_verify[i] \in 1..Len(unchanged)

\* C32 (as stated): phase 3 verifies n files at 100 percent and
\* max(1, floor(n * verify_percent / 100)) distinct files below, and so
\* files_verified is the number of unchanged files times the fraction.
C32_VerifiedIsCountTimesFraction ==
    /\ SampleIsExact
    /\ pc = "phase4" =>
          stats.files_verified * 100 = Len(unchanged) * cfg.verify_percent

\* C32 (amended): phase 3 verifies n files at 100 percent and
\* max(1, floor(n * verify_percent / 100)) distinct files below, which is
\* the number of unchanged files times the fraction only when that product
\* is a whole number of at least one.
C32_VerifiedIsFlooredSample ==
    /\ SampleIsExact
    /\ pc = "phase4" =>
          LET product == Len(unchanged) * cfg.verify_percent
          IN  (product % 100 = 0 /\ product >= 100)
                 => stats.files_verified * 100 = product

\* Ten unchanged files at 50 percent: five were verified.
C32_Witness ==
    /\ pc = "phase4" /\ Len(unchanged) = 10 /\ cfg.verify_percent = 50
    /\ stats.files_verified = 5

-----------------------------------------------------------------------------
\* The counters of RunStats.
Counters ==
    {"files_scanned", "files_created", "files_verified", "files_damaged",
     "files_repaired", "files_moved", "files_deleted", "files_truncated",
     "parity_recreated", "orphan_parity_cleaned"}

\* The step is one of a run under way.
InRun == pc \in {"phase2", "phase3", "phase4"}

\* C33: the step that verifies a sampled file adds one to files_verified,
\* adds one to at most one of files_damaged and parity_recreated and nothing
\* to any other counter; in every step of a run no counter goes down and the
\* errors are only added to.
C33_Phase3CountsOncePerFile ==
    [][/\ Phase3Next =>
            LET damaged == stats'.files_damaged - stats.files_damaged
                recreated == stats'.parity_recreated - stats.parity_recreated
            IN  /\ stats'.files_verified = stats.files_verified + 1
                /\ damaged \in {0, 1} /\ recreated \in {0, 1}
                /\ damaged + recreated <= 1
                /\ \A k \in Counters \ {"files_verified", "files_damaged",
                                        "parity_recreated"} :
                       stats'[k] = stats[k]
       /\ InRun =>
            /\ \A k \in Counters : stats'[k] >= stats[k]
            /\ Len(stats'.errors) >= Len(stats.errors)
            /\ SubSeq(stats'.errors, 1, Len(stats.errors)) = stats.errors]_vars

\* Two files were verified in phase 3: one was found damaged, the parity of
\* the other was made again.
C33_Witness ==
    /\ pc = "phase3" /\ to_verify = <<>>
    /\ stats.files_verified = 2
    /\ stats.files_damaged = 1 /\ stats.parity_recreated = 1

-----------------------------------------------------------------------------
\* What a call that ran the child returns for the child's exit code.
ByExitCode(op, exit) ==
    IF op = "verify"
    THEN IF exit = 0 THEN "ok" ELSE IF exit = 1 THEN "damaged" ELSE "error"
    ELSE IF exit = 0 THEN "true" ELSE "false"

\* What a call whose child was cancelled returns.
ByTimeout(op) == IF op = "verify" THEN "error" ELSE "false"

\* A call of parity.py has run the child.
ChildRan == log # None /\ log.ran

\* C34: with PAR2_TIMEOUT = 0 a call that runs the child returns what the
\* child's exit code says, however long the child takes; with a positive
\* timeout a child that takes longer makes create and repair return false
\* and verify return error, and one that does not is judged by its exit code.
C34_ZeroMeansNoTimeout ==
    ChildRan =>
        IF cfg.par2_timeout = 0 \/ log.seconds <= cfg.par2_timeout
        THEN log.result = ByExitCode(log.op, log.exit)
        ELSE log.result = ByTimeout(log.op)

-----------------------------------------------------------------------------
\* Every row that is kept has the status it had.
StatusKept ==
    \A r \in files : \A q \in files' : q.id = r.id => q.status = r.status

\* The step verifies a sampled file and the verifier says ok.
VerifiedOk ==
    /\ Phase3Next
    /\ calls' # <<>> /\ calls'[1].op = "verify" /\ calls'[1].result = "ok"

\* The step verifies a sampled file whose parity is missing and whose content
\* is not the row's any more.
SneakyNext ==
    /\ MissingNext
    /\ sha256_file(disk, Head(to_verify).fi) # Head(to_verify).rec.content_hash

\* C35: a touch, a move and a verify that says ok leave the status of every
\* row as it was, and a row that is kept gets status ok from another status
\* only in the step of a modify or of a sneaky modify.
C35_StatusOnlyResetByUpsert ==
    [][/\ (TouchNext \/ MoveNext \/ VerifiedOk) => StatusKept
       /\ \A r \in files : \A q \in files' :
              (q.id = r.id /\ r.status # "ok" /\ q.status = "ok")
                 => (ModifyNext \/ SneakyNext)]_vars

\* A row found damaged in an earlier run has just verified ok and is still
\* damaged.
C35_Witness ==
    /\ pc = "phase3"
    /\ calls # <<>> /\ calls[1].op = "verify" /\ calls[1].result = "ok"
    /\ \E r \in files : /\ r.status = "damaged"
                        /\ r.content_hash = calls[1].hash
                        /\ r.verified_at = runCount
                        /\ stats.files_damaged = 0

-----------------------------------------------------------------------------
\* The row needs nothing from phase 4 any more: its path was scanned, or it
\* is marked truncated and its file is on disk.
Settled(r) ==
    \/ PathOf(r) \in seen_on_disk
    \/ r.status = "truncated" /\ disk[PathOf(r)] # NoFile

\* The ids phase 4 has still to visit.
Ahead == {cursor[i] : i \in DOMAIN cursor}

\* In phase 4 the ids still to visit are distinct ids of rows, and every row
\* that is not among them is settled.
Phase4Progress ==
    pc = "phase4" =>
        /\ \A i, j \in DOMAIN cursor : i # j => cursor[i] # cursor[j]
        /\ Ahead \subseteq Ids(files)
        /\ \A r \in files : r.id \notin Ahead => Settled(r)

-----------------------------------------------------------------------------
\* The run is the one after an aborted run and reconcile, not verify_only,
\* has returned.
Recovered == ScanCompleted /\ snap.run = runCount /\ snap.recovering

\* No create_parity of the run has failed.
CreatesSucceeded ==
    \A i \in DOMAIN stats.errors :
        stats.errors[i] \notin {"parity create failed", "parity re-create failed"}

\* No sha256_file of the run has failed.
HashesSucceeded ==
    \A i \in DOMAIN stats.errors :
        stats.errors[i] \notin {"hash error", "hash error during parity re-create"}

\* Every row has its base file and every base file has a row.
BackedAndNoOrphan ==
    /\ \A r \in files : BaseOf(r) \in store
    /\ BaseFiles \subseteq {BaseOf(r) : r \in files}

-----------------------------------------------------------------------------
\* The base files the step removes from the parity store.
BasesRemoved == {f \in store \ store' : f[2] = ".par2"}

\* C38: when a step of a run removes a base file, no row that the step
\* leaves as it was names that base file, also when the hashes of two rows
\* differ and share their first 16 hex characters.
C38_SafeDeleteKeepsNeededParity ==
    [][InRun => \A r \in files \cap files' : r.par2_name \notin BasesRemoved]_vars

-----------------------------------------------------------------------------
\* The step made a parity call of this kind with one of these results.
CallMade(cs, op, results) ==
    \E i \in DOMAIN cs : cs[i].op = op /\ cs[i].result \in results

\* The repair step ends on a path that fails: the file is missing or cannot
\* be hashed (no parity call is made), or create_parity or repair_file fails.
RepairFails ==
    \/ calls' = <<>>
    \/ CallMade(calls', "create", {"failed"})
    \/ CallMade(calls', "repair", {"false"})

\* C39: a repair step turns its row to ok only when create_parity succeeded
\* or the verify after the repair said ok, and the row's base file is then
\* in the store; when the file is missing, the hash cannot be computed,
\* create_parity fails or repair_file fails, no row changes and one error is
\* added; and when the parity was deleted and could not be made again, the
\* row is not ok.
C39_RepairOkOnlyWithParity ==
    [][RepairNext =>
         LET rec == RowById(files, Head(cursor))
             now == RowById(files', rec.id)
         IN  /\ Ids(files') = Ids(files)
             /\ (rec.status # "ok" /\ now.status = "ok")
                   => /\ BaseOf(now) \in store'
                      /\ \/ CallMade(calls', "create", {"created", "exists"})
                         \/ CallMade(calls', "verify", {"ok"})
             /\ RepairFails
                   => /\ files' = files
                      /\ Len(stats'.errors) = Len(stats.errors) + 1
             /\ (CallMade(calls', "delete", {"done"})
                   /\ CallMade(calls', "create", {"failed"}))
                   => now.status # "ok" /\ BaseOf(now) \notin store']_vars

\* The parity of an intact damaged file, which no other row shares, was
\* deleted and could not be made again: the row is still damaged, without
\* parity, and the error is recorded.
C39_Witness ==
    /\ pc = "repair"
    /\ CallMade(calls, "delete", {"done"}) /\ CallMade(calls, "create", {"failed"})
    /\ stats.errors # <<>>
    /\ stats.errors[Len(stats.errors)] = "parity re-create failed"
    /\ \E r \in files : /\ r.content_hash = calls[1].hash
                        /\ r.status = "damaged"
                        /\ BaseOf(r) \notin store
                        /\ Refs(files, r.content_hash) = 1

-----------------------------------------------------------------------------
\* Phase 2 is about to handle a file.
Phase2Next == pc = "phase2" /\ needs_hash # <<>>

\* The rows phase 1 took for the files it classified unchanged.
UnchangedRecs == {unchanged[i].rec : i \in DOMAIN unchanged}

====
